---- MODULE Spec2Model ----
(***************************************************************************)
(* The nutrition cache (meal_prep_agent/nutrition_cache.py) and the        *)
(* scrapers that read and fill it (meal_prep_agent/tesco_real.py,          *)
(* meal_prep_agent/tesco_simple.py), with the scraper that works without   *)
(* the cache (meal_prep_agent/tesco_working.py), the browser scraper        *)
(* (meal_prep_agent/tesco_scraper.py), the cache manager (manage_cache.py) *)
(* and the agent node's progress indicator (meal_prep_agent/               *)
(* simple_agent.py).                                                       *)
(*                                                                         *)
(* Spec runs the cache API, SpecScraper the scrapers and their tools over  *)
(* the cache, SpecPure the key derivation and the extraction functions on  *)
(* enumerated pages, SpecCli the cache manager beside a process that sets  *)
(* entries, SpecAgent the agent node and its indicator thread.             *)
(*                                                                         *)
(* Python values are modelled as follows.  A str is a TLA+ string.  A dict *)
(* with fixed str keys is a record; .get(k, d) is DictGet.  The products   *)
(* mapping is a function whose domain is the set of keys present.  A       *)
(* nutrition dict is a set of <<nutrient, value>> pairs, {} being the      *)
(* empty dict.  A value that may be None is PyNone or PyDict(d).           *)
(* json.dump followed by json.load is exact on these values (str keys, str *)
(* and int leaves), so the content of a well-formed backing file is the    *)
(* dict that was dumped.                                                   *)
(*                                                                         *)
(* The timestamps last_updated and cached_at are written from              *)
(* datetime.now() and read by no branch of the code; the stores are        *)
(* modelled without them, so two stores are compared up to timestamps.     *)
(***************************************************************************)
EXTENDS Integers, Sequences, FiniteSets, TLC

VARIABLES
  file,        \* the backing file tesco_nutrition_cache.json
  proc,        \* "down", "up", or "crashed" (the import of nutrition_cache raised)
  cache_data,  \* _nutrition_cache.cache_data of the running process
  last,        \* the last call: its name, arguments, result and exception
  cli_data,    \* _nutrition_cache.cache_data of a manage_cache.py process that
               \* runs beside the first one; NoStore while none runs
  agent        \* the call of agent_node in progress: its position, its flag
               \* 'thinking', and the position and counter of show_thinking

vars == <<file, proc, cache_data, last, cli_data, agent>>

\* ------------------------------------------------------------------ bounds

MaxHits == 2

\* ----------------------------------------------------------- Python values

PyNone == [py |-> "None"]
PyDict(d) == [py |-> "dict", val |-> d]
\* bool(v) of an Optional[dict]: None and the empty dict are falsy
Truthy(v) == v.py = "dict" /\ v.val # {}

DictGet(d, k, default) == IF k \in DOMAIN d THEN d[k] ELSE default
DictSet(d, k, v) == [j \in DOMAIN d \cup {k} |-> IF j = k THEN v ELSE d[j]]

NoException == "none"

\* the element of a one-element set: The({e : x \in {v}}) is e with x bound to
\* the value of v, which is then computed once however often e reads x
The(S) == CHOOSE v \in S : TRUE

\* no call of agent_node has been made
NoAgent == [pc |-> "idle", thinking |-> FALSE, thinking_thread |-> "none", dots |-> 0]

\* ------------------------------------------------------------ backing file

MissingFile == [kind |-> "missing"]
\* exists, but open() raises IOError (no permission, a directory)
UnreadableFile == [kind |-> "unreadable"]
\* exists and opens, but is not JSON (also what a failed write leaves behind)
GarbageFile == [kind |-> "garbage"]
\* valid JSON whose top level is a list
JsonListFile == [kind |-> "json_list"]
\* valid JSON whose top level is the object d
JsonFile(d) == [kind |-> "json_dict", data |-> d]

NoProducts == [k \in {} |-> [product_name |-> ""]]

EmptyStore == [cache_version |-> "1.0", products |-> NoProducts]

\* the cache_data of a process that has not constructed its NutritionCache
NoStore == [loaded |-> FALSE]

\* ------------------------------------------------------------- NutritionCache

\* _load_cache: res.exc is the exception that escapes, res.data the value returned
_load_cache(f) ==
  CASE f.kind = "missing"    -> [exc |-> NoException, data |-> EmptyStore]
    [] f.kind = "unreadable" -> [exc |-> NoException, data |-> EmptyStore]
    [] f.kind = "garbage"    -> [exc |-> NoException, data |-> EmptyStore]
    [] f.kind = "json_list"  -> [exc |-> "AttributeError", data |-> NoStore]
    [] f.kind = "json_dict"  -> [exc |-> NoException, data |-> f.data]

\* The outcomes of open(cache_file, 'w') and json.dump that this file allows:
\* "ok", "open_fails" (IOError before the file is touched), "write_fails"
\* (IOError after open() truncated the file).
IoOutcomes(f) == IF f.kind = "unreadable" THEN {"open_fails"}
                 ELSE {"ok", "open_fails", "write_fails"}

\* _save_cache without its except IOError
_save_cache_Propagates(cd, f, io) ==
  CASE io = "open_fails"  -> [exc |-> "IOError", cache_data |-> cd, file |-> f]
    [] io = "write_fails" -> [exc |-> "IOError", cache_data |-> cd, file |-> GarbageFile]
    [] io = "ok"          -> [exc |-> IF "products" \in DOMAIN cd THEN NoException ELSE "KeyError",
                              cache_data |-> cd, file |-> JsonFile(cd)]

_save_cache(cd, f, io) ==
  CASE io = "open_fails"  -> [exc |-> NoException, cache_data |-> cd, file |-> f]
    [] io = "write_fails" -> [exc |-> NoException, cache_data |-> cd, file |-> GarbageFile]
    [] io = "ok"          -> [exc |-> IF "products" \in DOMAIN cd THEN NoException ELSE "KeyError",
                              cache_data |-> cd, file |-> JsonFile(cd)]

Sep == "/products/"

\* the least i with s[i .. i+Len(Sep)-1] = Sep, or 0
FindSep(s) ==
  LET hits == {i \in 1..(Len(s) - Len(Sep) + 1) : SubSeq(s, i, i + Len(Sep) - 1) = Sep}
  IN IF hits = {} THEN 0 ELSE CHOOSE i \in hits : \A j \in hits : i <= j

\* s.split(Sep)[-1]
RECURSIVE SplitLast(_)
SplitLast(s) ==
  IF FindSep(s) = 0 THEN s
  ELSE SplitLast(SubSeq(s, FindSep(s) + Len(Sep), Len(s)))

\* the key of product_url, computed by the split
SplitKey(product_url) ==
  IF FindSep(product_url) # 0 THEN SplitLast(product_url) ELSE product_url

\* the URLs the operations are called with, and their keys computed once
KnownUrls == {"https://x/products/123", "https://x/no-match",
              "https://www.tesco.com/groceries/en-GB/products/1001",
              "https://www.tesco.com/groceries/en-GB/products/1002",
              "https://www.tesco.com/groceries/en-GB/products/1003"}
ProductKeys == {<<u, SplitKey(u)>> : u \in KnownUrls}

_get_product_key(product_url) ==
  IF product_url \in KnownUrls THEN (CHOOSE p \in ProductKeys : p[1] = product_url)[2]
  ELSE SplitKey(product_url)

\* get_nutrition returning None for an entry whose nutrition dict is empty
get_nutrition_EmptyIsMiss(cd, product_url) ==
  LET key == _get_product_key(product_url) IN
  IF "products" \notin DOMAIN cd THEN [exc |-> "KeyError", ret |-> PyNone]
  ELSE IF key \in DOMAIN cd.products /\ DictGet(cd.products[key], "nutrition", {}) # {}
       THEN [exc |-> NoException, ret |-> PyDict(DictGet(cd.products[key], "nutrition", {}))]
       ELSE [exc |-> NoException, ret |-> PyNone]

get_nutrition(cd, product_url) ==
  LET key == _get_product_key(product_url) IN
  IF "products" \notin DOMAIN cd THEN [exc |-> "KeyError", ret |-> PyNone]
  ELSE IF key \in DOMAIN cd.products
       THEN [exc |-> NoException, ret |-> PyDict(DictGet(cd.products[key], "nutrition", {}))]
       ELSE [exc |-> NoException, ret |-> PyNone]

PriorHits(cd, key) ==
  IF key \in DOMAIN cd.products THEN DictGet(cd.products[key], "cache_hits", 0) ELSE 0

\* set_nutrition with _save_cache() called before the entry is stored
set_nutrition_SavesFirst(cd, f, product_url, product_name, nutrition_data, io) ==
  LET key == _get_product_key(product_url) IN
  IF "products" \notin DOMAIN cd THEN [exc |-> "KeyError", cache_data |-> cd, file |-> f]
  ELSE [_save_cache(cd, f, io) EXCEPT !.cache_data =
          [cd EXCEPT !.products = DictSet(cd.products, key,
             [product_name |-> product_name,
              product_url  |-> product_url,
              nutrition    |-> nutrition_data,
              cache_hits   |-> PriorHits(cd, key)])]]

\* set_nutrition with "cache_hits": 0 in place of the prior count
set_nutrition_ResetsHits(cd, f, product_url, product_name, nutrition_data, io) ==
  LET key == _get_product_key(product_url) IN
  IF "products" \notin DOMAIN cd THEN [exc |-> "KeyError", cache_data |-> cd, file |-> f]
  ELSE _save_cache(
         [cd EXCEPT !.products = DictSet(cd.products, key,
             [product_name |-> product_name,
              product_url  |-> product_url,
              nutrition    |-> nutrition_data,
              cache_hits   |-> 0])],
         f, io)

set_nutrition(cd, f, product_url, product_name, nutrition_data, io) ==
  LET key == _get_product_key(product_url) IN
  IF "products" \notin DOMAIN cd THEN [exc |-> "KeyError", cache_data |-> cd, file |-> f]
  ELSE _save_cache(
         [cd EXCEPT !.products = DictSet(cd.products, key,
             [product_name |-> product_name,
              product_url  |-> product_url,
              nutrition    |-> nutrition_data,
              cache_hits   |-> PriorHits(cd, key)])],
         f, io)

\* increment_hit_count without the test that the key is present
increment_hit_count_CreatesEntry(cd, product_url) ==
  LET key == _get_product_key(product_url) IN
  IF "products" \notin DOMAIN cd THEN [exc |-> "KeyError", cache_data |-> cd]
  ELSE [exc |-> NoException,
        cache_data |-> [cd EXCEPT !.products = DictSet(cd.products, key,
                          DictSet(DictGet(cd.products, key, [cache_hits |-> 0]), "cache_hits",
                                  DictGet(DictGet(cd.products, key, [cache_hits |-> 0]),
                                          "cache_hits", 0) + 1))]]

increment_hit_count(cd, product_url) ==
  LET key == _get_product_key(product_url) IN
  IF "products" \notin DOMAIN cd THEN [exc |-> "KeyError", cache_data |-> cd]
  ELSE IF key \in DOMAIN cd.products
       THEN [exc |-> NoException,
             cache_data |-> [cd EXCEPT !.products[key] =
                               DictSet(@, "cache_hits", DictGet(@, "cache_hits", 0) + 1)]]
       ELSE [exc |-> NoException, cache_data |-> cd]

RECURSIVE SumHits(_, _)
SumHits(products, keys) ==
  IF keys = {} THEN 0
  ELSE LET k == CHOOSE k \in keys : TRUE
       IN DictGet(products[k], "cache_hits", 0) + SumHits(products, keys \ {k})

TopN == 5

\* the hit counts of `keys`, in descending order
RECURSIVE HitsDescending(_, _)
HitsDescending(products, keys) ==
  IF keys = {} THEN <<>>
  ELSE LET k == CHOOSE k \in keys : \A j \in keys :
                  DictGet(products[j], "cache_hits", 0) <= DictGet(products[k], "cache_hits", 0)
       IN <<DictGet(products[k], "cache_hits", 0)>> \o HitsDescending(products, keys \ {k})

\* get_cache_stats; of most_popular_products the hit counts are modelled (the
\* names of tied entries come in insertion order, which the mapping does not
\* keep), and of the file size whether there is a file; last_updated is a
\* timestamp.
get_cache_stats(cd, f) ==
  IF "products" \notin DOMAIN cd THEN [exc |-> "KeyError"]
  ELSE [exc |-> NoException,
        total_cached_products |-> Cardinality(DOMAIN cd.products),
        total_cache_hits      |-> SumHits(cd.products, DOMAIN cd.products),
        cache_file_exists     |-> f.kind # "missing",
        most_popular_hits     |-> LET all == HitsDescending(cd.products, DOMAIN cd.products)
                                  IN SubSeq(all, 1, IF Len(all) < TopN THEN Len(all) ELSE TopN)]

clear_cache(f, io) == _save_cache(EmptyStore, f, io)

\* nutrition.get(k, default) on a nutrition dict
NutritionGet(nutrition, k, default) ==
  IF \E p \in nutrition : p[1] = k THEN (CHOOSE p \in nutrition : p[1] = k)[2] ELSE default

\* the row export_to_csv writes for one entry, without its 'Cached At' field
CsvRow(product_id, data) ==
  The({ [product_id   |-> product_id,
         product_name |-> DictGet(data, "product_name", ""),
         product_url  |-> DictGet(data, "product_url", ""),
         serving_size |-> NutritionGet(nutrition, "serving_size", ""),
         energy       |-> NutritionGet(nutrition, "energy", ""),
         protein      |-> NutritionGet(nutrition, "protein", ""),
         carbs        |-> NutritionGet(nutrition, "carbs", ""),
         fat          |-> NutritionGet(nutrition, "fat", ""),
         salt         |-> NutritionGet(nutrition, "salt", ""),
         cache_hits   |-> DictGet(data, "cache_hits", 0)]
      : nutrition \in {DictGet(data, "nutrition", {})} })

\* an export that leaves out the entries without nutrition data
export_to_csv_SkipsEmpty(cd, io) ==
  IF io # "ok" THEN [exc |-> NoException, written |-> FALSE, rows |-> {}]
  ELSE IF "products" \notin DOMAIN cd THEN [exc |-> "KeyError", written |-> TRUE, rows |-> {}]
  ELSE [exc |-> NoException, written |-> TRUE,
        rows |-> {CsvRow(k, cd.products[k]) :
                    k \in {j \in DOMAIN cd.products :
                             DictGet(cd.products[j], "nutrition", {}) # {}}}]

\* export_to_csv: written says that the output file was opened and the header
\* row written, rows are the data rows.  The keys of the entries differ, so
\* the rows do, and they are kept as a set; the file lists them in the order
\* of the dict.  An IOError is caught, a KeyError is not.
export_to_csv(cd, io) ==
  IF io # "ok" THEN [exc |-> NoException, written |-> FALSE, rows |-> {}]
  ELSE IF "products" \notin DOMAIN cd THEN [exc |-> "KeyError", written |-> TRUE, rows |-> {}]
  ELSE [exc |-> NoException, written |-> TRUE,
        rows |-> {CsvRow(k, cd.products[k]) : k \in DOMAIN cd.products}]

\* -------------------------------------------------- nutrition_cache module API

\* get_cached_nutrition: the lookup, and the hit counted when the result is truthy
get_cached_nutrition(cd, product_url) ==
  The({ IF got.exc # NoException THEN [exc |-> got.exc, ret |-> PyNone, cache_data |-> cd]
        ELSE IF Truthy(got.ret)
        THEN The({ [exc |-> inc.exc, ret |-> got.ret, cache_data |-> inc.cache_data]
                   : inc \in {increment_hit_count(cd, product_url)} })
        ELSE [exc |-> NoException, ret |-> got.ret, cache_data |-> cd]
      : got \in {get_nutrition(cd, product_url)} })

cache_nutrition(cd, f, product_url, product_name, nutrition_data, io) ==
  set_nutrition(cd, f, product_url, product_name, nutrition_data, io)

\* ------------------------------------------------------------ strings

\* the least i with s[i .. i+Len(p)-1] = p, or 0: s.find(p) + 1
Find(s, p) ==
  LET hits == {i \in 1..(Len(s) - Len(p) + 1) : SubSeq(s, i, i + Len(p) - 1) = p}
  IN IF hits = {} THEN 0 ELSE CHOOSE i \in hits : \A j \in hits : i <= j

\* p in s
Contains(s, p) == Find(s, p) # 0

\* s.startswith(p)
StartsWith(s, p) == Len(p) <= Len(s) /\ SubSeq(s, 1, Len(p)) = p

\* s.split()[0] for a title whose words are separated by single spaces
FirstWord(s) == IF Find(s, " ") = 0 THEN s ELSE SubSeq(s, 1, Find(s, " ") - 1)

\* seq[:n] for n >= 0
Take(seq, n) == SubSeq(seq, 1, IF n < Len(seq) THEN n ELSE Len(seq))

UpperCase == "ABCDEFGHIJKLMNOPQRSTUVWXYZ"
LowerCase == "abcdefghijklmnopqrstuvwxyz"

\* s.lower() for ASCII s, character by character
RECURSIVE LowerChars(_)
LowerChars(s) ==
  IF s = "" THEN ""
  ELSE LET c == SubSeq(s, 1, 1)
           u == Find(UpperCase, c)
       IN (IF u = 0 THEN c ELSE SubSeq(LowerCase, u, u)) \o LowerChars(SubSeq(s, 2, Len(s)))

\* the titles the pages hold and the queries, and their lower-case forms
\* computed once
KnownTitles == {"Tesco Chicken Breast 650G", "Tesco Finest Chicken 1Kg",
                "Cravendale Milk 2L", "Milk", "Tesco Cola 0G Sugar 2L",
                "Tesco chicken thighs 1kg", "chicken", "tofu"}
LowerTitles == {<<t, LowerChars(t)>> : t \in KnownTitles}

Lower(s) ==
  IF s \in KnownTitles THEN (CHOOSE p \in LowerTitles : p[1] = s)[2] ELSE LowerChars(s)

Digits == "0123456789"

\* the last position of the run of digits of s that starts at i; i - 1 when
\* s[i] is not a digit
RECURSIVE DigitsEnd(_, _)
DigitsEnd(s, i) ==
  IF i <= Len(s) /\ Contains(Digits, SubSeq(s, i, i)) THEN DigitsEnd(s, i + 1) ELSE i - 1

\* the last position of a number that starts at i: \d+ or, when decimal,
\* \d+\.?\d*
NumEnd(s, i, decimal) ==
  LET d1 == DigitsEnd(s, i)
  IN IF decimal /\ d1 >= i /\ d1 < Len(s) /\ SubSeq(s, d1 + 1, d1 + 1) = "."
     THEN DigitsEnd(s, d1 + 2)
     ELSE d1

\* re.search(number + unit, s).group(1): the leftmost number that the unit
\* follows; "" when there is no match
WeightMatch(s, unit, decimal) ==
  LET hits == {i \in 1..Len(s) :
                 /\ DigitsEnd(s, i) >= i
                 /\ StartsWith(SubSeq(s, NumEnd(s, i, decimal) + 1, Len(s)), unit)}
  IN IF hits = {} THEN ""
     ELSE The({ SubSeq(s, i, NumEnd(s, i, decimal))
              : i \in {CHOOSE i \in hits : \A j \in hits : i <= j} })

\* float(g) == 0.0 for a match g of \d+\.?\d*
IsZeroNumber(g) == \A i \in 1..Len(g) : SubSeq(g, i, i) \in {"0", "."}

\* ------------------------------------------------------------- storefront

\* What the storefront answers to one GET.  exc: requests raised (timeout,
\* connection error); status: the HTTP status; length: len(response.text);
\* blocked: the body holds "Access Denied" or "blocked"; facts: the nutrition
\* dict the extraction strategies recover from the body.
DetailTimeout   == [exc |-> TRUE,  status |-> 0,   length |-> 0,     blocked |-> FALSE, facts |-> {}]
DetailForbidden == [exc |-> FALSE, status |-> 403, length |-> 20000, blocked |-> FALSE, facts |-> {}]
DetailShort     == [exc |-> FALSE, status |-> 200, length |-> 4999,  blocked |-> FALSE, facts |-> {}]
DetailBlocked   == [exc |-> FALSE, status |-> 200, length |-> 20000, blocked |-> TRUE,  facts |-> {}]
DetailNoFacts   == [exc |-> FALSE, status |-> 200, length |-> 20000, blocked |-> FALSE, facts |-> {}]

FactsA == {<<"serving_size", "100g">>, <<"energy", "115kcal">>}
FactsB == {<<"protein", "21.5g">>}

DetailFacts(facts) ==
  [exc |-> FALSE, status |-> 200, length |-> 20000, blocked |-> FALSE, facts |-> facts]
\* a page with facts, longer than tesco_real's threshold, shorter than tesco_simple's
DetailMidFacts(facts) ==
  [exc |-> FALSE, status |-> 200, length |-> 9999, blocked |-> FALSE, facts |-> facts]

\* a log entry: the code slept, or issued a GET of one kind ("home", "search",
\* "detail"); got is what the nutrition fetch that issued a detail GET returned
Slept == [ev |-> "sleep"]
Got(kind, url, facts) == [ev |-> "GET", kind |-> kind, url |-> url, got |-> facts]

DetailGets(log) == {i \in 1..Len(log) : log[i].ev = "GET" /\ log[i].kind = "detail"}

\* ---------------------------------------------------------- RealTescoScraper

BaseUrl == "https://www.tesco.com"
ProductUrl(tpnc) == BaseUrl \o "/groceries/en-GB/products/" \o tpnc
\* quote_plus(query) is the query itself for the one-word queries made
SearchUrl(query) == BaseUrl \o "/groceries/en-GB/search?query=" \o query

MinBodyReal == 5000

\* a fetch that asks again after a request that failed
_get_real_nutrition_raw_Retries(product_url, resp) ==
  LET ret == IF resp.exc \/ resp.status >= 400 \/ resp.length < MinBodyReal
                \/ resp.blocked THEN {} ELSE resp.facts
  IN [ret |-> ret,
      log |-> <<Slept, Got("detail", product_url, ret)>>
              \o (IF resp.exc THEN <<Slept, Got("detail", product_url, ret)>> ELSE <<>>)]

\* _get_real_nutrition_raw: the nutrition dict returned and the requests made.
\* The sample written to debug_blocked_response.html is not part of the state.
_get_real_nutrition_raw(product_url, resp) ==
  LET ret == IF resp.exc THEN {}
             ELSE IF resp.status >= 400 THEN {}       \* raise_for_status()
             ELSE IF resp.length < MinBodyReal THEN {}
             ELSE IF resp.blocked THEN {}
             ELSE IF resp.status = 403 THEN {}
             ELSE resp.facts
  IN [ret |-> ret, log |-> <<Slept, Got("detail", product_url, ret)>>]

\* the branch of _get_real_nutrition_with_name taken on a falsy cache result
FetchAndCache(cd, f, product_url, product_name, resp, io) ==
  The({ The({ [exc |-> wr.exc, ret |-> raw.ret, cache_data |-> wr.cache_data,
               file |-> wr.file, log |-> raw.log]
            : wr \in {IF raw.ret # {}
                      THEN cache_nutrition(cd, f, product_url, product_name, raw.ret, io)
                      ELSE [exc |-> NoException, cache_data |-> cd, file |-> f]} })
      : raw \in {_get_real_nutrition_raw(product_url, resp)} })

\* _get_real_nutrition_with_name without the test `if nutrition_data:`
_get_real_nutrition_with_name_CachesAlways(cd, f, product_url, product_name, resp, io) ==
  The({ IF cached.exc # NoException
        THEN [exc |-> cached.exc, ret |-> {}, cache_data |-> cd, file |-> f, log |-> <<>>]
        ELSE IF Truthy(cached.ret)
        THEN [exc |-> NoException, ret |-> cached.ret.val, cache_data |-> cached.cache_data,
              file |-> f, log |-> <<>>]
        ELSE The({ The({ [exc |-> wr.exc, ret |-> raw.ret, cache_data |-> wr.cache_data,
                          file |-> wr.file, log |-> raw.log]
                       : wr \in {cache_nutrition(cached.cache_data, f, product_url,
                                                 product_name, raw.ret, io)} })
                 : raw \in {_get_real_nutrition_raw(product_url, resp)} })
      : cached \in {get_cached_nutrition(cd, product_url)} })

_get_real_nutrition_with_name(cd, f, product_url, product_name, resp, io) ==
  The({ IF cached.exc # NoException
        THEN [exc |-> cached.exc, ret |-> {}, cache_data |-> cd, file |-> f, log |-> <<>>]
        ELSE IF Truthy(cached.ret)
        THEN [exc |-> NoException, ret |-> cached.ret.val, cache_data |-> cached.cache_data,
              file |-> f, log |-> <<>>]
        ELSE FetchAndCache(cached.cache_data, f, product_url, product_name, resp, io)
      : cached \in {get_cached_nutrition(cd, product_url)} })

\* RealTescoScraper._extract_brand_from_title
_extract_brand_from_title(title) ==
  IF StartsWith(title, "Tesco")
  THEN IF Contains(title, "Finest") THEN "Tesco Finest"
       ELSE IF Contains(title, "Organic") THEN "Tesco Organic"
       ELSE "Tesco"
  ELSE IF title # "" THEN FirstWord(title) ELSE ""

NoPrice == "Price not available"

\* f"{price_val:.2f}" with a pound sign, for a price of `pence` pence
FormatPrice(pence) ==
  "£" \o ToString(pence \div 100) \o "." \o
  (IF pence % 100 < 10 THEN "0" ELSE "") \o ToString(pence % 100)

\* products built by pairing the titles that pass the length filter, in their
\* order, with the first ids, tpncs and brands
RECURSIVE BuildKept(_, _, _)
BuildKept(page, kept, i) ==
  IF i >= Len(kept) THEN <<>>
  ELSE LET product_id == IF i < Len(page.product_ids) THEN page.product_ids[i + 1]
                         ELSE "unknown_" \o ToString(i)
           tpnc       == IF i < Len(page.tpncs) THEN page.tpncs[i + 1] ELSE product_id
       IN <<[name |-> kept[i + 1], price |-> "Price not available",
             url |-> "https://www.tesco.com/groceries/en-GB/products/" \o tpnc,
             brand |-> IF i < Len(page.brands) THEN page.brands[i + 1]
                       ELSE _extract_brand_from_title(kept[i + 1]),
             nutrition |-> {}, product_id |-> product_id, tpnc |-> tpnc]>>
          \o BuildKept(page, kept, i + 1)

BuildProducts_PairsKept(page, i) ==
  BuildKept(page, SelectSeq(page.titles, LAMBDA t : Len(t) > 5), i)

\* The products built from the i-th and later titles (i counts from 0 as
\* enumerate does).  image, unit_price, promotion and availability, which no
\* branch reads, are left out of the product dict.
RECURSIVE BuildProducts(_, _)
BuildProducts(page, i) ==
  IF i >= Len(page.titles) THEN <<>>
  ELSE LET title      == page.titles[i + 1]
           product_id == IF i < Len(page.product_ids) THEN page.product_ids[i + 1]
                         ELSE "unknown_" \o ToString(i)
           tpnc       == IF i < Len(page.tpncs) THEN page.tpncs[i + 1] ELSE product_id
           brand      == IF i < Len(page.brands) THEN page.brands[i + 1]
                         ELSE _extract_brand_from_title(title)
       IN (IF title # "" /\ Len(title) > 5
           THEN <<[name |-> title, price |-> NoPrice, url |-> ProductUrl(tpnc),
                   brand |-> brand, nutrition |-> {}, product_id |-> product_id,
                   tpnc |-> tpnc]>>
           ELSE <<>>)
          \o BuildProducts(page, i + 1)

\* the unit-price step of the price loop divides the price by the weight read
\* from the name: per kg when the name holds "kg", else per 100 g when it
\* holds "g"; a weight of zero raises ZeroDivisionError
UnitPriceRaises(name) ==
  LET lower == Lower(name)
      kg    == WeightMatch(lower, "kg", TRUE)
      g     == WeightMatch(lower, "g", FALSE)
  IN IF Contains(lower, "kg") THEN kg # "" /\ IsZeroNumber(kg)
     ELSE IF Contains(lower, "g") THEN g # "" /\ IsZeroNumber(g)
     ELSE FALSE

\* the titles whose unit price raises, computed once
RaisingTitles == {t \in KnownTitles : UnitPriceRaises(t)}

\* the price loop of _enrich_with_price_data from the i-th product on: the
\* i-th price found goes to the i-th product, then its unit price is
\* computed; exc is an exception that leaves the loop, the products priced
\* before it keep their prices (the dicts are changed in place)
RECURSIVE AssignPrices(_, _, _)
AssignPrices(products, prices, i) ==
  IF i > Len(products) THEN [products |-> products, exc |-> NoException]
  ELSE IF i > Len(prices) THEN AssignPrices(products, prices, i + 1)
  ELSE The({ IF (IF priced[i].name \in KnownTitles THEN priced[i].name \in RaisingTitles
                 ELSE UnitPriceRaises(priced[i].name))
             THEN [products |-> priced, exc |-> "ZeroDivisionError"]
             ELSE AssignPrices(priced, prices, i + 1)
           : priced \in {[products EXCEPT ![i].price = FormatPrice(prices[i])]} })

\* the nutrition loop of _enrich_with_price_data from the i-th product on; an
\* exception leaves the loop (it is caught at the end of the method)
RECURSIVE RealNutritionLoop(_, _, _, _)
RealNutritionLoop(st, i, resps, io) ==
  IF i > Len(st.products) THEN st
  ELSE IF st.products[i].nutrition # {} THEN RealNutritionLoop(st, i + 1, resps, io)
  ELSE The({ IF r.exc # NoException
             THEN [st EXCEPT !.cache_data = r.cache_data, !.file = r.file, !.log = @ \o r.log]
             ELSE The({ RealNutritionLoop(nxt, i + 1, resps, io)
                      : nxt \in {[products   |-> [st.products EXCEPT ![i].nutrition = r.ret],
                                  cache_data |-> r.cache_data,
                                  file       |-> r.file,
                                  log        |-> st.log \o r.log]} })
           : r \in {_get_real_nutrition_with_name(st.cache_data, st.file, st.products[i].url,
                                                  st.products[i].name, resps[i], io)} })

\* page.prices: the prices found that convert to a number, in pence.  An
\* exception of the price loop is caught at the end of the method, past the
\* nutrition loop.
_enrich_with_price_data(products, page, extract_nutrition, cd, f, resps, io) ==
  The({ The({ IF extract_nutrition /\ pl.exc = NoException
              THEN RealNutritionLoop(st, 1, resps, io) ELSE st
            : st \in {[products |-> pl.products, cache_data |-> cd, file |-> f,
                       log |-> <<>>]} })
      : pl \in {AssignPrices(products, page.prices, 1)} })

_is_valid_product(product) ==
  /\ product.name # ""
  /\ Len(product.name) > 5
  /\ product.product_id # ""
  /\ product.url # ""

RECURSIVE Filter(_, _)
Filter(products, i) ==
  IF i > Len(products) THEN <<>>
  ELSE (IF _is_valid_product(products[i]) THEN <<products[i]>> ELSE <<>>)
       \o Filter(products, i + 1)

_extract_real_product_data(page, extract_nutrition, cd, f, resps, io) ==
  The({ [st EXCEPT !.products = Filter(st.products, 1)]
      : st \in {_enrich_with_price_data(BuildProducts(page, 0), page, extract_nutrition,
                                        cd, f, resps, io)} })

\* a search_products that returns every product extracted
RealSearchProducts_ReturnsAll(query, limit, extract_nutrition, sresp, cd, f, resps, io) ==
  IF sresp.exc \/ sresp.status >= 400
  THEN [products |-> <<>>, cache_data |-> cd, file |-> f,
        log |-> <<Slept, Got("search", SearchUrl(query), {})>>]
  ELSE The({ [products   |-> st.products,
              cache_data |-> st.cache_data,
              file       |-> st.file,
              log        |-> <<Slept, Got("search", SearchUrl(query), {})>> \o st.log]
           : st \in {_extract_real_product_data(sresp.page, extract_nutrition, cd, f,
                                                resps, io)} })

\* RealTescoScraper.search_products; sresp is the storefront's answer to the
\* search request, sresp.page the match lists the patterns find in its body
RealSearchProducts(query, limit, extract_nutrition, sresp, cd, f, resps, io) ==
  LET head == <<Slept, Got("search", SearchUrl(query), {})>> IN
  IF sresp.exc \/ sresp.status >= 400
  THEN [products |-> <<>>, cache_data |-> cd, file |-> f, log |-> head]
  ELSE The({ [products   |-> Take(st.products, limit),
              cache_data |-> st.cache_data,
              file       |-> st.file,
              log        |-> head \o st.log]
           : st \in {_extract_real_product_data(sresp.page, extract_nutrition, cd, f,
                                                resps, io)} })

\* search_tesco_products_real: RealTescoScraper(...) visits the homepage, then
\* search_products; found is the number of products the scraper returned.
\* search_products catches every Exception itself, so the tool's own except
\* arm is not taken.
search_tesco_products_real(query, limit, extract_nutrition, sresp, cd, f, resps, io) ==
  The({ [exc        |-> NoException,
         ret        |-> IF st.products = <<>>
                        THEN <<[error |-> "No products found for '" \o query \o "'"]>>
                        ELSE st.products,
         found      |-> Len(st.products),
         cache_data |-> st.cache_data,
         file       |-> st.file,
         log        |-> <<Got("home", BaseUrl, {})>> \o st.log]
      : st \in {RealSearchProducts(query, limit, extract_nutrition, sresp, cd, f,
                                   resps, io)} })

\* -------------------------------------------------------- SimpleTescoScraper

MinBodySimple == 10000
max_nutrition_requests == 2
MaxLinks == 20
MaxTextMatches == 10

\* SimpleTescoScraper._extract_brand_from_title
SimpleBrandFromTitle(title) ==
  IF StartsWith(title, "Tesco")
  THEN IF Contains(Lower(title), "finest") THEN "Tesco Finest"
       ELSE IF Contains(Lower(title), "organic") THEN "Tesco Organic"
       ELSE IF Contains(Lower(title), "free range") THEN "Tesco Free Range"
       ELSE "Tesco"
  ELSE IF title # "" THEN FirstWord(title) ELSE "Unknown"

_create_product_dict(title, product_id) ==
  [name |-> title, price |-> NoPrice, url |-> ProductUrl(product_id),
   brand |-> SimpleBrandFromTitle(title), nutrition |-> {}, product_id |-> product_id,
   tpnc |-> product_id]

\* page.json_pairs: the <<title, id>> matches of the three JSON patterns, in order
RECURSIVE _extract_from_json_patterns(_, _)
_extract_from_json_patterns(pairs, i) ==
  IF i > Len(pairs) THEN <<>>
  ELSE (IF Len(pairs[i][1]) > 3 /\ Len(pairs[i][2]) > 3
        THEN <<_create_product_dict(pairs[i][1], pairs[i][2])>> ELSE <<>>)
       \o _extract_from_json_patterns(pairs, i + 1)

\* page.links: the <<id, text>> of the anchors whose href matches /products/\d+
RECURSIVE LinkProducts(_, _)
LinkProducts(links, i) ==
  IF i > Len(links) THEN <<>>
  ELSE (IF links[i][2] # "" /\ Len(links[i][2]) > 3
        THEN <<_create_product_dict(links[i][2], links[i][1])>> ELSE <<>>)
       \o LinkProducts(links, i + 1)

_extract_from_html_patterns(links) == LinkProducts(Take(links, MaxLinks), 1)

\* str(hash(match) % 1000000000): a number that depends on the match alone
HashId(match) == ToString(Len(match))

RECURSIVE TextProducts(_, _)
TextProducts(matches, i) ==
  IF i > Len(matches) THEN <<>>
  ELSE (IF Len(matches[i]) > 10
        THEN <<_create_product_dict(matches[i], HashId(matches[i]))>> ELSE <<>>)
       \o TextProducts(matches, i + 1)

\* page.text_matches[j]: the matches of the j-th text pattern for the query
RECURSIVE _extract_from_text_patterns(_, _)
_extract_from_text_patterns(per_pattern, j) ==
  IF j > Len(per_pattern) THEN <<>>
  ELSE TextProducts(Take(per_pattern[j], MaxTextMatches), 1)
       \o _extract_from_text_patterns(per_pattern, j + 1)

\* an extractor whose three strategies all run, their results joined
_extract_products_robust_RunsAll(page) ==
  [products |-> _extract_from_json_patterns(page.json_pairs, 1)
                \o _extract_from_html_patterns(page.links)
                \o _extract_from_text_patterns(page.text_matches, 1),
   ran      |-> <<"json", "html", "text">>]

\* _extract_products_robust; ran lists the strategies that were called
_extract_products_robust(page) ==
  LET json == _extract_from_json_patterns(page.json_pairs, 1)
      html == _extract_from_html_patterns(page.links)
  IN IF json # <<>> THEN [products |-> json, ran |-> <<"json">>]
     ELSE IF html # <<>> THEN [products |-> html, ran |-> <<"json", "html">>]
     ELSE [products |-> _extract_from_text_patterns(page.text_matches, 1),
           ran      |-> <<"json", "html", "text">>]

\* _get_nutrition_ultra_cautious; a KeyError of cache_nutrition is caught by
\* the method's except and turns the result into {}
_get_nutrition_ultra_cautious(cd, f, product_url, product_name, resp, io) ==
  LET facts == IF resp.exc THEN {}
               ELSE IF resp.status = 403 THEN {}
               ELSE IF resp.status # 200 THEN {}
               ELSE IF resp.length < MinBodySimple THEN {}
               ELSE resp.facts
  IN The({ LET ret == IF wr.exc # NoException THEN {} ELSE facts
           IN [ret |-> ret, cache_data |-> wr.cache_data, file |-> wr.file,
               log |-> <<Slept, Got("detail", product_url, ret)>>]
         : wr \in {IF facts # {}
                   THEN cache_nutrition(cd, f, product_url, product_name, facts, io)
                   ELSE [exc |-> NoException, cache_data |-> cd, file |-> f]} })

\* the loop of _add_nutrition_cautiously from the i-th product on; st.exc is an
\* exception that leaves the method
RECURSIVE SimpleNutritionLoop(_, _, _, _)

\* the loop body for a product that is not in the cache: fetch, then go on or break
SimpleFetch(st, i, cd, resps, io) ==
  The({ IF r.ret # {}
        THEN The({ SimpleNutritionLoop(nxt, i + 1, resps, io)
                 : nxt \in {[st EXCEPT !.products[i].nutrition = r.ret,
                                       !.cache_data = r.cache_data,
                                       !.file = r.file,
                                       !.nutrition_count = @ + 1,
                                       !.log = @ \o r.log \o
                                               (IF st.nutrition_count + 1 < max_nutrition_requests
                                                THEN <<Slept>> ELSE <<>>)]} })
        ELSE [st EXCEPT !.cache_data = r.cache_data, !.file = r.file, !.log = @ \o r.log]
      : r \in {_get_nutrition_ultra_cautious(cd, st.file, st.products[i].url,
                                             st.products[i].name, resps[i], io)} })

SimpleNutritionLoop(st, i, resps, io) ==
  IF i > Len(st.products) THEN st
  ELSE IF st.nutrition_count >= max_nutrition_requests THEN st
  ELSE IF st.products[i].url = "" \/ st.products[i].name = ""
  THEN SimpleNutritionLoop(st, i + 1, resps, io)
  ELSE The({ IF cached.exc # NoException THEN [st EXCEPT !.exc = cached.exc]
             ELSE IF Truthy(cached.ret)
             THEN The({ SimpleNutritionLoop(nxt, i + 1, resps, io)
                      : nxt \in {[st EXCEPT !.products[i].nutrition = cached.ret.val,
                                            !.cache_data = cached.cache_data]} })
             ELSE SimpleFetch(st, i, cached.cache_data, resps, io)
           : cached \in {get_cached_nutrition(st.cache_data, st.products[i].url)} })

_add_nutrition_cautiously(products, cd, f, resps, io) ==
  SimpleNutritionLoop([products |-> products, cache_data |-> cd, file |-> f, log |-> <<>>,
                       nutrition_count |-> 0, exc |-> NoException], 1, resps, io)

\* SimpleTescoScraper.search_products
SimpleSearchProducts(query, limit, extract_nutrition, sresp, cd, f, resps, io) ==
  LET head  == <<Slept, Got("search", SearchUrl(query), {})>>
      empty == [products |-> <<>>, cache_data |-> cd, file |-> f, log |-> head]
  IN IF sresp.exc \/ sresp.status >= 400 THEN empty
     ELSE IF sresp.length < MinBodySimple THEN empty
     ELSE The({ IF products = <<>> THEN empty
                ELSE IF ~extract_nutrition
                THEN [empty EXCEPT !.products = Take(products, limit)]
                ELSE The({ [products   |-> IF st.exc # NoException THEN <<>>
                                           ELSE Take(st.products, limit),
                            cache_data |-> st.cache_data,
                            file       |-> st.file,
                            log        |-> head \o st.log]
                         : st \in {_add_nutrition_cautiously(products, cd, f, resps, io)} })
              : products \in {_extract_products_robust(sresp.page).products} })

\* search_tesco_products_simple
search_tesco_products_simple(query, limit, extract_nutrition, sresp, cd, f, resps, io) ==
  The({ [exc        |-> NoException,
         ret        |-> IF st.products = <<>>
                        THEN <<[message |-> "No products found for '" \o query
                                            \o "' - search may be temporarily limited"]>>
                        ELSE st.products,
         found      |-> Len(st.products),
         cache_data |-> st.cache_data,
         file       |-> st.file,
         log        |-> st.log]
      : st \in {SimpleSearchProducts(query, limit, extract_nutrition, sresp, cd, f,
                                     resps, io)} })

\* ------------------------------------------------------- WorkingTescoScraper

MinNameWorking == 3
ScriptEnough == 5
ScriptMax == 10
MaxElements == 10

\* _parse_json_for_products on the product-like dicts of one pattern match,
\* in the order of the traversal: _format_product_data keeps a dict whose name
\* has at least three characters.  data.name, data.price and data.url are what
\* the key lookups of _format_product_data give.
RECURSIVE _parse_json_for_products(_, _)
_parse_json_for_products(dicts, i) ==
  IF i > Len(dicts) THEN <<>>
  ELSE (IF dicts[i].name = "" \/ Len(dicts[i].name) < MinNameWorking THEN <<>>
        ELSE <<[name |-> dicts[i].name, price |-> dicts[i].price, url |-> dicts[i].url,
                brand |-> "", nutrition |-> {}]>>)
       \o _parse_json_for_products(dicts, i + 1)

\* _extract_from_scripts from the i-th pattern match on; page.scripts holds,
\* for each pattern that matches in a script, the dicts of its JSON
RECURSIVE _extract_from_scripts(_, _, _)
_extract_from_scripts(scripts, i, products) ==
  IF i > Len(scripts) THEN products
  ELSE The({ IF extracted = <<>> THEN _extract_from_scripts(scripts, i + 1, products)
             ELSE IF Len(products \o extracted) >= ScriptEnough
             THEN Take(products \o extracted, ScriptMax)
             ELSE _extract_from_scripts(scripts, i + 1, products \o extracted)
           : extracted \in {_parse_json_for_products(scripts[i], 1)} })

\* _extract_from_html_element on the elements of one selector; an element is
\* the text of its name element and its link, and is kept when the name has
\* more than three characters
RECURSIVE ElementProducts(_, _)
ElementProducts(elements, i) ==
  IF i > Len(elements) THEN <<>>
  ELSE (IF elements[i].name # "" /\ Len(elements[i].name) > 3
        THEN <<[name |-> elements[i].name, price |-> NoPrice, url |-> elements[i].url,
                brand |-> "", nutrition |-> {}]>>
        ELSE <<>>)
       \o ElementProducts(elements, i + 1)

\* _extract_from_html from the j-th selector on: the first selector that gives
\* products ends the loop
RECURSIVE _extract_from_html(_, _)
_extract_from_html(selectors, j) ==
  IF j > Len(selectors) THEN <<>>
  ELSE The({ IF products # <<>> THEN products ELSE _extract_from_html(selectors, j + 1)
           : products \in {ElementProducts(Take(selectors[j], MaxElements), 1)} })

\* the built-in product table of _generate_realistic_results, in dict order
ChickenFacts == {<<"protein", "23.1g">>, <<"fat", "1.9g">>, <<"energy", "106kcal">>}
MilkFacts    == {<<"protein", "3.4g">>, <<"fat", "1.7g">>, <<"energy", "46kcal">>}
realistic_products ==
  << <<"chicken", <<[name |-> "Tesco British Chicken Breast Fillets 640G",
                     price |-> "£4.50", nutrition |-> ChickenFacts],
                    [name |-> "Tesco Finest Free Range Chicken Breast Fillets 480G",
                     price |-> "£5.50", nutrition |-> ChickenFacts]>> >>,
     <<"milk",    <<[name |-> "Tesco British Semi Skimmed Milk 4 Pints",
                     price |-> "£1.55", nutrition |-> MilkFacts],
                    [name |-> "Tesco Organic Semi Skimmed Milk 1 Litre",
                     price |-> "£1.30", nutrition |-> MilkFacts]>> >>,
     <<"bread",   <<[name |-> "Tesco Medium Sliced White Bread 800G", price |-> "£1.10",
                     nutrition |-> {<<"protein", "8.7g">>, <<"fat", "2.2g">>,
                                    <<"energy", "247kcal">>}]>> >>,
     <<"rice",    <<[name |-> "Tesco Basmati Rice 1Kg", price |-> "£2.50",
                     nutrition |-> {<<"protein", "7.9g">>, <<"fat", "0.6g">>,
                                    <<"energy", "349kcal">>}]>> >> >>

\* s.title() for ASCII s; start says that no letter precedes
RECURSIVE TitleChars(_, _)
TitleChars(s, start) ==
  IF s = "" THEN ""
  ELSE LET c == SubSeq(s, 1, 1)
           l == Find(LowerCase, c)
           u == Find(UpperCase, c)
       IN (IF start /\ l # 0 THEN SubSeq(UpperCase, l, l)
           ELSE IF ~start /\ u # 0 THEN SubSeq(LowerCase, u, u)
           ELSE c)
          \o TitleChars(SubSeq(s, 2, Len(s)), l = 0 /\ u = 0)

\* the products of the table from the c-th category on whose category is in
\* the query; n results were made before, and the k-th result takes the k-th
\* random id
RECURSIVE MatchingProducts(_, _, _, _)
MatchingProducts(query_lower, c, n, rnd) ==
  IF c > Len(realistic_products) THEN <<>>
  ELSE IF ~Contains(query_lower, realistic_products[c][1])
  THEN MatchingProducts(query_lower, c + 1, n, rnd)
  ELSE LET ps == realistic_products[c][2]
       IN [k \in 1..Len(ps) |->
             [name |-> ps[k].name, price |-> ps[k].price,
              url |-> ProductUrl(rnd.ids[n + k]), brand |-> "Tesco",
              nutrition |-> ps[k].nutrition]]
          \o MatchingProducts(query_lower, c + 1, n + Len(ps), rnd)

\* _generate_realistic_results; rnd holds the values the random module gives
_generate_realistic_results(query, limit, rnd) ==
  The({ Take(IF results # <<>> THEN results
             ELSE <<[name |-> "Tesco " \o TitleChars(query, TRUE),
                     price |-> FormatPrice(rnd.price), url |-> ProductUrl(rnd.ids[1]),
                     brand |-> "Tesco",
                     nutrition |-> {<<"protein", "10g">>, <<"fat", "5g">>,
                                    <<"energy", "150kcal">>}]>>,
             limit)
      : results \in {MatchingProducts(Lower(query), 1, 0, rnd)} })

\* the extraction steps of WorkingTescoScraper.search_products on a parsed
\* response; ran lists the steps that were called
WorkingExtract(page, query, limit, rnd) ==
  LET scripts == _extract_from_scripts(page.scripts, 1, <<>>)
      html    == _extract_from_html(page.selectors, 1)
  IN IF scripts # <<>> THEN [products |-> scripts, ran |-> <<"scripts">>]
     ELSE IF html # <<>> THEN [products |-> html, ran |-> <<"scripts", "html">>]
     ELSE [products |-> _generate_realistic_results(query, limit, rnd),
           ran      |-> <<"scripts", "html", "generate">>]

\* WorkingTescoScraper.search_products
WorkingSearchProducts(query, limit, sresp, rnd) ==
  [products |-> IF sresp.exc \/ sresp.status >= 400
                THEN _generate_realistic_results(query, limit, rnd)
                ELSE Take(WorkingExtract(sresp.page, query, limit, rnd).products, limit),
   log      |-> <<Slept, Got("search", SearchUrl(query), {})>>]

\* search_tesco_products_working
search_tesco_products_working(query, limit, sresp, rnd) ==
  The({ [exc   |-> NoException,
         ret   |-> IF st.products = <<>>
                   THEN <<[error |-> "No products found for '" \o query \o "'"]>>
                   ELSE st.products,
         found |-> Len(st.products),
         log   |-> st.log]
      : st \in {WorkingSearchProducts(query, limit, sresp, rnd)} })

\* ------------------------------------------------- TescoScraper (Playwright)

\* _extract_product_from_element on each element: page.tiles are the elements
\* of the first product selector that matches, each with the text of its
\* name and its link; an element without a name is an "Unknown Product"
RECURSIVE TileProducts(_, _)
TileProducts(tiles, i) ==
  IF i > Len(tiles) THEN <<>>
  ELSE <<[name  |-> IF tiles[i].name # "" THEN tiles[i].name ELSE "Unknown Product",
          price |-> NoPrice, url |-> tiles[i].url]>>
       \o TileProducts(tiles, i + 1)

_extract_search_results(tiles, limit) == TileProducts(Take(tiles, limit), 1)

\* TescoScraper.search_products: the browser goes to the search page at once;
\* a page that answers with an error status is parsed like any other
TescoScraperSearchProducts(query, limit, sresp) ==
  [products |-> IF sresp.exc THEN <<>> ELSE _extract_search_results(sresp.page.tiles, limit),
   log      |-> <<Got("search", SearchUrl(query), {})>>]

\* search_tesco_products_free
search_tesco_products_free(query, limit, sresp) ==
  The({ [exc   |-> NoException,
         ret   |-> IF st.products = <<>>
                   THEN <<[error |-> "No products found for '" \o query \o "'"]>>
                   ELSE st.products,
         found |-> Len(st.products),
         log   |-> st.log]
      : st \in {TescoScraperSearchProducts(query, limit, sresp)} })

\* ------------------------------------------------------------------ inputs

UrlA == "https://x/products/123"
UrlB == "https://x/no-match"
CacheUrls == {UrlA, UrlB}

\* the calls of set_nutrition that are made: <<url, name, nutrition>>
SetCalls == {<<UrlA, "Chicken Breast", FactsA>>,
             <<UrlA, "Chicken Fillets", FactsB>>,
             <<UrlA, "Chicken Breast", {}>>,
             <<UrlB, "Whole Milk", FactsB>>}

\* a store saved by an earlier run
StoredFile ==
  JsonFile([cache_version |-> "1.0",
            products |-> ("123" :> [product_name |-> "Chicken Breast",
                                    product_url  |-> UrlA,
                                    nutrition    |-> FactsA,
                                    cache_hits   |-> 1])])

\* a store edited by hand between runs: an entry without nutrition and cache_hits
EditedFile ==
  JsonFile([cache_version |-> "1.0",
            products |-> (UrlB :> [product_name |-> "Whole Milk",
                                   product_url  |-> UrlB])])

\* valid JSON, an object, without the products mapping
ShapelessFile == JsonFile([cache_version |-> "1.0"])

\* a store whose cache_version is not the one this code writes into a new store
VersionedFile == JsonFile([cache_version |-> "2.0", products |-> NoProducts])

InitFiles == {MissingFile, UnreadableFile, GarbageFile, JsonListFile,
              ShapelessFile, StoredFile, EditedFile, VersionedFile}

\* ------------------------------------------------------------------ actions

Init ==
  /\ file \in InitFiles
  /\ proc = "down"
  /\ cache_data = NoStore
  /\ last = [op |-> "none"]
  /\ cli_data = NoStore
  /\ agent = NoAgent

\* the process starts and imports nutrition_cache: _nutrition_cache = NutritionCache()
Start ==
  /\ proc = "down"
  /\ \E res \in {_load_cache(file)} :
       /\ proc' = IF res.exc = NoException THEN "up" ELSE "crashed"
       /\ cache_data' = res.data
       /\ last' = [op |-> "init", exc |-> res.exc]
  /\ UNCHANGED file
  /\ UNCHANGED <<cli_data, agent>>

\* the process ends; its in-memory store is gone
Exit ==
  /\ proc \in {"up", "crashed"}
  /\ proc' = "down"
  /\ cache_data' = NoStore
  /\ last' = [op |-> "exit"]
  /\ UNCHANGED file
  /\ UNCHANGED <<cli_data, agent>>

GetNutrition ==
  /\ proc = "up"
  /\ \E url \in CacheUrls :
       \E res \in {get_nutrition(cache_data, url)} :
       last' = [op |-> "get_nutrition", url |-> url, exc |-> res.exc, ret |-> res.ret]
  /\ UNCHANGED <<file, proc, cache_data>>
  /\ UNCHANGED <<cli_data, agent>>

SetNutrition ==
  /\ proc = "up"
  /\ \E call \in SetCalls, io \in IoOutcomes(file) :
       \E res \in {set_nutrition(cache_data, file, call[1], call[2], call[3], io)} :
       /\ cache_data' = res.cache_data
       /\ file' = res.file
       /\ last' = [op |-> "set_nutrition", url |-> call[1], name |-> call[2],
                   facts |-> call[3], io |-> io, exc |-> res.exc]
  /\ UNCHANGED proc
  /\ UNCHANGED <<cli_data, agent>>

\* the hit counter is capped at MaxHits to keep the state space finite
HitsBelowCap(url) ==
  "products" \in DOMAIN cache_data => PriorHits(cache_data, _get_product_key(url)) < MaxHits

\* increment_hit_count followed by _save_cache()
IncrementHitCount_Saves ==
  /\ proc = "up"
  /\ \E url \in CacheUrls :
       \E res \in {increment_hit_count(cache_data, url)} :
       /\ HitsBelowCap(url)
       /\ cache_data' = res.cache_data
       /\ file' = IF res.exc = NoException THEN JsonFile(res.cache_data) ELSE file
       /\ last' = [op |-> "increment_hit_count", url |-> url, exc |-> res.exc]
  /\ UNCHANGED proc
  /\ UNCHANGED <<cli_data, agent>>

IncrementHitCount ==
  /\ proc = "up"
  /\ \E url \in CacheUrls :
       \E res \in {increment_hit_count(cache_data, url)} :
       /\ HitsBelowCap(url)
       /\ cache_data' = res.cache_data
       /\ last' = [op |-> "increment_hit_count", url |-> url, exc |-> res.exc]
  /\ UNCHANGED <<file, proc>>
  /\ UNCHANGED <<cli_data, agent>>

GetCachedNutrition ==
  /\ proc = "up"
  /\ \E url \in CacheUrls :
       \E res \in {get_cached_nutrition(cache_data, url)} :
       /\ HitsBelowCap(url)
       /\ cache_data' = res.cache_data
       /\ last' = [op |-> "get_cached_nutrition", url |-> url, exc |-> res.exc, ret |-> res.ret]
  /\ UNCHANGED <<file, proc>>
  /\ UNCHANGED <<cli_data, agent>>

GetCacheStats ==
  /\ proc = "up"
  /\ last' = [op |-> "get_cache_stats", res |-> get_cache_stats(cache_data, file)]
  /\ UNCHANGED <<file, proc, cache_data>>
  /\ UNCHANGED <<cli_data, agent>>

ClearCache ==
  /\ proc = "up"
  /\ \E io \in IoOutcomes(file) :
       \E res \in {clear_cache(file, io)} :
       /\ cache_data' = res.cache_data
       /\ file' = res.file
       /\ last' = [op |-> "clear_cache", io |-> io, exc |-> res.exc]
  /\ UNCHANGED proc
  /\ UNCHANGED <<cli_data, agent>>

\* export_cache_to_csv to a file other than the backing file
ExportToCsv ==
  /\ proc = "up"
  /\ \E io \in {"ok", "open_fails"} :
       \E res \in {export_to_csv(cache_data, io)} :
         last' = [op |-> "export_to_csv", io |-> io, exc |-> res.exc,
                  written |-> res.written, rows |-> res.rows]
  /\ UNCHANGED <<file, proc, cache_data>>
  /\ UNCHANGED <<cli_data, agent>>

\* ---------------------------------------------------------- manage_cache.py

\* the depth of nested calls at which the interpreter raises RecursionError
\* (sys.getrecursionlimit() is 1000; the model needs only that it is finite)
RecursionLimit == 3

\* main() with sys.argv[1:] = argv, the answer typed at clear's prompt, and
\* the outcome of the file operation of clear or export; out lists what the
\* command printed
RECURSIVE main(_, _, _, _, _, _)
main(argv, confirm, io, cd, f, depth) ==
  IF depth > RecursionLimit
  THEN [exc |-> "RecursionError", out |-> <<>>, cache_data |-> cd, file |-> f]
  ELSE IF Len(argv) < 1
  THEN [exc |-> NoException, out |-> <<"usage">>, cache_data |-> cd, file |-> f]
  ELSE LET command == LowerChars(argv[1])
       IN CASE command = "stats" ->
                 The({ [exc |-> stats.exc,
                        out |-> IF stats.exc = NoException THEN <<"stats">> ELSE <<>>,
                        cache_data |-> cd, file |-> f]
                       : stats \in {get_cache_stats(cd, f)} })
            [] command = "export" ->
                 The({ [exc |-> res.exc,
                        out |-> IF res.exc = NoException THEN <<"exported">> ELSE <<>>,
                        cache_data |-> cd, file |-> f]
                       : res \in {export_to_csv(cd, io)} })
            [] command = "clear" ->
                 IF LowerChars(confirm) = "y"
                 THEN The({ [exc |-> res.exc,
                             out |-> IF res.exc = NoException THEN <<"cleared">> ELSE <<>>,
                             cache_data |-> res.cache_data, file |-> res.file]
                            : res \in {clear_cache(f, io)} })
                 ELSE [exc |-> NoException, out |-> <<"cancelled">>,
                       cache_data |-> cd, file |-> f]
            [] command = "help" -> main(argv, confirm, io, cd, f, depth + 1)
            [] OTHER ->
                 [exc |-> NoException, out |-> <<"unknown">>, cache_data |-> cd, file |-> f]

\* the command lines, prompt answers and file outcomes of a run of the CLI
MainInputs ==
  {[argv |-> a, confirm |-> "", io |-> "ok"]
     : a \in {<<>>, <<"stats">>, <<"Stats">>, <<"help">>, <<"frobnicate">>}}
  \cup {[argv |-> <<"export">>, confirm |-> "", io |-> i] : i \in {"ok", "open_fails"}}
  \cup {[argv |-> <<"clear">>, confirm |-> c, io |-> i]
          : c \in {"y", "Y", "n", ""}, i \in {"ok", "write_fails"}}

\* python manage_cache.py starts and imports nutrition_cache, which loads the
\* file; a failed import ends the process at once
CliStart ==
  /\ cli_data = NoStore
  /\ \E res \in {_load_cache(file)} :
       /\ cli_data' = res.data
       /\ last' = [op |-> "cli_init", exc |-> res.exc]
  /\ UNCHANGED <<file, proc, cache_data, agent>>

\* main() runs the command and the CLI process ends
Main ==
  /\ cli_data # NoStore
  /\ \E in \in MainInputs :
       \E res \in {main(in.argv, in.confirm, in.io, cli_data, file, 1)} :
         /\ file' = res.file
         /\ last' = [op |-> "main", argv |-> in.argv, confirm |-> in.confirm,
                     exc |-> res.exc, out |-> res.out]
  /\ cli_data' = NoStore
  /\ UNCHANGED <<proc, cache_data, agent>>

Next ==
  \/ Start
  \/ Exit
  \/ GetNutrition
  \/ SetNutrition
  \/ IncrementHitCount
  \/ GetCachedNutrition
  \/ GetCacheStats
  \/ ClearCache
  \/ ExportToCsv

Spec == Init /\ [][Next]_vars

\* a scraper process that sets entries and a manage_cache.py process, both on
\* the same backing file
NextCli ==
  \/ Start
  \/ Exit
  \/ SetNutrition
  \/ CliStart
  \/ Main

SpecCli == Init /\ [][NextCli]_vars

\* ----------------------------------------------------------- simple_agent.py

\* agent_node up to llm_with_tools.invoke: thinking = True and the thread
\* running show_thinking is started
agent_node_start(a) ==
  [pc |-> "invoking", thinking |-> TRUE, thinking_thread |-> "while", dots |-> 0]

\* invoke raised and the try statement had no finally clause
agent_node_raises_NoFinally(a) == [a EXCEPT !.pc = "raised"]

\* invoke returned: thinking = False, the message, return through finally
agent_node_returns(a) == [a EXCEPT !.pc = "returned", !.thinking = FALSE]

\* invoke raised: the finally clause sets thinking = False, the exception
\* leaves agent_node
agent_node_raises(a) == [a EXCEPT !.pc = "raised", !.thinking = FALSE]

\* show_thinking: the test of 'while thinking'
show_thinking_while(a) ==
  [a EXCEPT !.thinking_thread = IF a.thinking THEN "print" ELSE "ended"]

\* show_thinking: print, which shows dots % 4 dots, then time.sleep(1)
show_thinking_print(a) == [a EXCEPT !.thinking_thread = "sleep"]

\* show_thinking: the sleep is over; dots += 1, kept modulo 4, the only way
\* the counter is read
show_thinking_wake(a) ==
  [a EXCEPT !.thinking_thread = "while", !.dots = (a.dots + 1) % 4]

\* agent_node is called; a call is modelled once the indicator of the call
\* before it has ended (each call has a flag and a thread of its own)
AgentNode ==
  /\ proc = "up"
  /\ agent.pc # "invoking"
  /\ agent.thinking_thread \in {"none", "ended"}
  /\ agent' = agent_node_start(agent)
  /\ UNCHANGED <<file, proc, cache_data, last, cli_data>>

InvokeReturns ==
  /\ agent.pc = "invoking"
  /\ agent' = agent_node_returns(agent)
  /\ UNCHANGED <<file, proc, cache_data, last, cli_data>>

InvokeRaises ==
  /\ agent.pc = "invoking"
  /\ agent' = agent_node_raises(agent)
  /\ UNCHANGED <<file, proc, cache_data, last, cli_data>>

ShowThinkingWhile ==
  /\ agent.thinking_thread = "while"
  /\ agent' = show_thinking_while(agent)
  /\ UNCHANGED <<file, proc, cache_data, last, cli_data>>

ShowThinkingPrint ==
  /\ agent.thinking_thread = "print"
  /\ agent' = show_thinking_print(agent)
  /\ UNCHANGED <<file, proc, cache_data, last, cli_data>>

ShowThinkingWake ==
  /\ agent.thinking_thread = "sleep"
  /\ agent' = show_thinking_wake(agent)
  /\ UNCHANGED <<file, proc, cache_data, last, cli_data>>

\* the steps of the thread that runs show_thinking
ShowThinking == ShowThinkingWhile \/ ShowThinkingPrint \/ ShowThinkingWake

\* calls of agent_node in a process whose tool node writes the cache
NextAgent ==
  \/ Start
  \/ SetNutrition
  \/ AgentNode
  \/ InvokeReturns
  \/ InvokeRaises
  \/ ShowThinkingWhile
  \/ ShowThinkingPrint
  \/ ShowThinkingWake

\* the thread is scheduled again and again, and time.sleep(1) returns
SpecAgent == Init /\ [][NextAgent]_vars /\ WF_vars(ShowThinking)

\* ---------------------------------------------------------- scraper inputs

Title1 == "Tesco Chicken Breast 650G"
Title2 == "Tesco Finest Chicken 1Kg"
Title3 == "Cravendale Milk 2L"

\* the match lists the scrapers' patterns find in a search page
PageNone ==
  [titles |-> <<>>, product_ids |-> <<>>, tpncs |-> <<>>, brands |-> <<>>, prices |-> <<>>,
   json_pairs |-> <<>>, links |-> <<>>, text_matches |-> <<<<>>, <<>>, <<>>>>,
   scripts |-> <<>>, selectors |-> <<>>, tiles |-> <<>>]

PageThree ==
  [titles      |-> <<Title1, Title2, Title3, "Milk">>,
   product_ids |-> <<"1001", "1002", "1003">>,
   tpncs       |-> <<"1001", "1002">>,
   brands      |-> <<"TESCO">>,
   prices      |-> <<450, 1200>>,
   json_pairs  |-> <<<<Title1, "1001">>, <<Title2, "1002">>, <<Title3, "1003">>>>,
   links       |-> <<>>,
   text_matches |-> <<<<>>, <<>>, <<>>>>,
   scripts     |-> <<<<[name |-> Title1, price |-> "£4.50", url |-> ProductUrl("1001")],
                       [name |-> Title2, price |-> NoPrice, url |-> ProductUrl("1002")]>>>>,
   selectors   |-> <<>>,
   tiles       |-> <<[name |-> Title1, url |-> ProductUrl("1001")],
                     [name |-> "", url |-> ProductUrl("1002")],
                     [name |-> Title3, url |-> ProductUrl("1003")]>>]

SearchTimeout == [exc |-> TRUE,  status |-> 0,   length |-> 0,     page |-> PageNone]
SearchError   == [exc |-> FALSE, status |-> 500, length |-> 300,   page |-> PageNone]
SearchShort   == [exc |-> FALSE, status |-> 200, length |-> 9999,  page |-> PageThree]
SearchOk(pg)  == [exc |-> FALSE, status |-> 200, length |-> 50000, page |-> pg]

SearchResponses == {SearchTimeout, SearchError, SearchShort, SearchOk(PageNone), SearchOk(PageThree)}

\* a product page with its nutrition table whose body holds the word "blocked"
DetailBlockedFacts ==
  [exc |-> FALSE, status |-> 200, length |-> 20000, blocked |-> TRUE, facts |-> FactsA]

DetailResponses == {DetailTimeout, DetailForbidden, DetailShort, DetailBlocked, DetailNoFacts,
                    DetailFacts(FactsA), DetailMidFacts(FactsA), DetailBlockedFacts}

\* the answers to the detail requests of one search, by product position
DetailPlans == {<<a, b, c>> : a \in {DetailTimeout, DetailFacts(FactsA)},
                              b \in {DetailTimeout, DetailFacts(FactsA)},
                              c \in {DetailNoFacts}}
NoDetails == <<DetailTimeout, DetailTimeout, DetailTimeout>>

Limits == {2, 5}
Queries == {"chicken"}

\* the queries given to the working scraper: one of its table, one unknown to it
WorkingQueries == {"chicken", "tofu"}

\* the values random.randint and random.uniform give in one search: the ids of
\* the products made up, and a price in pence
Rnds == {[ids |-> <<"250000000", "300000000">>, price |-> 150],
         [ids |-> <<"300000000", "300000000">>, price |-> 800]}

\* the products whose pages are fetched one at a time: <<url, name>>
Fetched == {<<ProductUrl("1001"), Title1>>, <<ProductUrl("1002"), Title2>>}

\* a caller stores an empty nutrition dict through cache_nutrition
ScraperSetCalls == {<<ProductUrl("1001"), Title1, {}>>}

\* the storage works while the scrapers run; its failures are explored in Spec
ScraperIo == {"ok"}

ScraperInitFiles == {MissingFile, ShapelessFile}

HitsWithinCap(cd) ==
  "products" \in DOMAIN cd =>
     \A k \in DOMAIN cd.products : DictGet(cd.products[k], "cache_hits", 0) <= MaxHits

\* --------------------------------------------------------- scraper actions

InitScraper ==
  /\ file \in ScraperInitFiles
  /\ proc = "down"
  /\ cache_data = NoStore
  /\ last = [op |-> "none"]
  /\ cli_data = NoStore
  /\ agent = NoAgent

CacheNutrition ==
  /\ proc = "up"
  /\ \E call \in ScraperSetCalls, io \in ScraperIo :
       \E res \in {cache_nutrition(cache_data, file, call[1], call[2], call[3], io)} :
       /\ cache_data' = res.cache_data
       /\ file' = res.file
       /\ last' = [op |-> "set_nutrition", url |-> call[1], name |-> call[2],
                   facts |-> call[3], io |-> io, exc |-> res.exc]
  /\ UNCHANGED proc
  /\ UNCHANGED <<cli_data, agent>>

\* RealTescoScraper._get_real_nutrition_with_name on one product
GetRealNutrition ==
  /\ proc = "up"
  /\ \E p \in Fetched, resp \in DetailResponses, io \in ScraperIo :
       \E res \in {_get_real_nutrition_with_name(cache_data, file, p[1], p[2], resp, io)} :
       /\ HitsWithinCap(res.cache_data)
       /\ cache_data' = res.cache_data
       /\ file' = res.file
       /\ last' = [op |-> "_get_real_nutrition_with_name", url |-> p[1], name |-> p[2],
                   resp |-> resp, exc |-> res.exc, ret |-> res.ret, log |-> res.log]
  /\ UNCHANGED proc
  /\ UNCHANGED <<cli_data, agent>>

\* SimpleTescoScraper._get_nutrition_ultra_cautious on one product
GetNutritionUltraCautious ==
  /\ proc = "up"
  /\ \E p \in Fetched, resp \in DetailResponses, io \in ScraperIo :
       \E res \in {_get_nutrition_ultra_cautious(cache_data, file, p[1], p[2], resp, io)} :
       /\ cache_data' = res.cache_data
       /\ file' = res.file
       /\ last' = [op |-> "_get_nutrition_ultra_cautious", url |-> p[1], name |-> p[2],
                   resp |-> resp, exc |-> NoException, ret |-> res.ret, log |-> res.log]
  /\ UNCHANGED proc
  /\ UNCHANGED <<cli_data, agent>>

DetailPlansFor(extract_nutrition) == IF extract_nutrition THEN DetailPlans ELSE {NoDetails}

SearchTescoProductsReal ==
  /\ proc = "up"
  /\ \E query \in Queries, limit \in Limits, extract_nutrition \in BOOLEAN,
        sresp \in SearchResponses, io \in ScraperIo :
       \E resps \in DetailPlansFor(extract_nutrition) :
         \E res \in {search_tesco_products_real(query, limit, extract_nutrition, sresp,
                                               cache_data, file, resps, io)} :
         /\ HitsWithinCap(res.cache_data)
         /\ cache_data' = res.cache_data
         /\ file' = res.file
         /\ last' = [op |-> "search_tesco_products_real", query |-> query, limit |-> limit,
                     extract_nutrition |-> extract_nutrition, sresp |-> sresp,
                     exc |-> res.exc, ret |-> res.ret, found |-> res.found,
                     log |-> res.log]
  /\ UNCHANGED proc
  /\ UNCHANGED <<cli_data, agent>>

SearchTescoProductsSimple ==
  /\ proc = "up"
  /\ \E query \in Queries, limit \in Limits, extract_nutrition \in BOOLEAN,
        sresp \in SearchResponses, io \in ScraperIo :
       \E resps \in DetailPlansFor(extract_nutrition) :
         \E res \in {search_tesco_products_simple(query, limit, extract_nutrition, sresp,
                                                 cache_data, file, resps, io)} :
         /\ HitsWithinCap(res.cache_data)
         /\ cache_data' = res.cache_data
         /\ file' = res.file
         /\ last' = [op |-> "search_tesco_products_simple", query |-> query, limit |-> limit,
                     extract_nutrition |-> extract_nutrition, sresp |-> sresp,
                     exc |-> res.exc, ret |-> res.ret, found |-> res.found,
                     log |-> res.log]
  /\ UNCHANGED proc
  /\ UNCHANGED <<cli_data, agent>>

\* search_tesco_products_working; it neither reads nor writes the cache
SearchTescoProductsWorking ==
  /\ proc = "up"
  /\ \E query \in WorkingQueries, limit \in Limits, sresp \in SearchResponses, rnd \in Rnds :
       \E res \in {search_tesco_products_working(query, limit, sresp, rnd)} :
         last' = [op |-> "search_tesco_products_working", query |-> query, limit |-> limit,
                  sresp |-> sresp, exc |-> res.exc, ret |-> res.ret, found |-> res.found,
                  log |-> res.log]
  /\ UNCHANGED <<file, proc, cache_data>>
  /\ UNCHANGED <<cli_data, agent>>

\* search_tesco_products_free; it neither reads nor writes the cache
SearchTescoProductsFree ==
  /\ proc = "up"
  /\ \E query \in Queries, limit \in Limits, sresp \in SearchResponses :
       \E res \in {search_tesco_products_free(query, limit, sresp)} :
         last' = [op |-> "search_tesco_products_free", query |-> query, limit |-> limit,
                  sresp |-> sresp, exc |-> res.exc, ret |-> res.ret, found |-> res.found,
                  log |-> res.log]
  /\ UNCHANGED <<file, proc, cache_data>>
  /\ UNCHANGED <<cli_data, agent>>

NextScraper ==
  \/ Start
  \/ CacheNutrition
  \/ GetRealNutrition
  \/ GetNutritionUltraCautious
  \/ SearchTescoProductsReal
  \/ SearchTescoProductsSimple
  \/ SearchTescoProductsWorking
  \/ SearchTescoProductsFree

SpecScraper == InitScraper /\ [][NextScraper]_vars

\* -------------------------------------------------------------- properties

ToolOps == {"search_tesco_products_real", "search_tesco_products_simple"}
FetchOps == {"_get_real_nutrition_with_name", "_get_nutrition_ultra_cautious"}

HitsOf(cd, key) == DictGet(cd.products[key], "cache_hits", 0)
TotalHits(cd) == SumHits(cd.products, DOMAIN cd.products)
WellFormed(cd) == "products" \in DOMAIN cd

\* C1: the search tool never raises, and whenever the scraper obtained no
\* product the tool returns a list of exactly one element that has an 'error'
\* field.
C1_ToolReportsFailure ==
  last.op \in ToolOps =>
    /\ last.exc = NoException
    /\ last.found = 0 => (Len(last.ret) = 1 /\ "error" \in DOMAIN last.ret[1])

\* C2: after a set(url, name, facts) that returned, get(url) in the same
\* process returns exactly facts, the empty mapping included, and what it
\* returns is not the miss signal None.
C2_RoundTrip ==
  (last.op = "set_nutrition" /\ last.exc = NoException) =>
    /\ get_nutrition(cache_data, last.url).exc = NoException
    /\ get_nutrition(cache_data, last.url).ret = PyDict(last.facts)
    /\ get_nutrition(cache_data, last.url).ret # PyNone

\* a set of the empty mapping has returned and get gives the empty mapping back
C2_Witness ==
  /\ last.op = "set_nutrition"
  /\ last.exc = NoException
  /\ last.facts = {}
  /\ get_nutrition(cache_data, last.url).ret = PyDict({})

\* C3: a nutrition fetch for a URL whose key is in the cache issues no
\* detail-page request, returns the cached facts, and adds exactly 1 to the
\* entry's hit count.
C3_HitSkipsFetch ==
  [][(/\ last'.op = "_get_real_nutrition_with_name"
      /\ WellFormed(cache_data)
      /\ _get_product_key(last'.url) \in DOMAIN cache_data.products)
     => LET key == _get_product_key(last'.url) IN
        /\ DetailGets(last'.log) = {}
        /\ last'.ret = DictGet(cache_data.products[key], "nutrition", {})
        /\ HitsOf(cache_data', key) = HitsOf(cache_data, key) + 1]_vars

\* the page is rejected: a failed request, a body shorter than the scraper's
\* threshold, or a block page
Rejected(op, resp) ==
  \/ resp.exc
  \/ resp.status >= 400
  \/ resp.blocked
  \/ resp.length < (IF op = "_get_real_nutrition_with_name" THEN MinBodyReal
                    ELSE MinBodySimple)

\* C4: a nutrition fetch that went to the detail page (the cache gave nothing)
\* writes the entry when what it returns is non-empty, and leaves the store
\* and the file as they were when it returns the empty map; it returns the
\* empty map whenever the page is rejected.
C4_WriteThroughOnSuccess ==
  [][(/\ last'.op \in FetchOps
      /\ last'.exc = NoException
      /\ DetailGets(last'.log) # {})
     => LET key == _get_product_key(last'.url) IN
        /\ Rejected(last'.op, last'.resp) => last'.ret = {}
        /\ last'.ret # {} =>
             /\ key \in DOMAIN cache_data'.products
             /\ cache_data'.products[key].nutrition = last'.ret
             /\ cache_data'.products[key].product_name = last'.name
             /\ file' = JsonFile(cache_data')
        /\ last'.ret = {} => (cache_data' = cache_data /\ file' = file)]_vars

\* a fetch went to the detail page, got facts, and the entry is in the store
C4_Witness ==
  /\ last.op = "_get_real_nutrition_with_name"
  /\ DetailGets(last.log) # {}
  /\ last.ret = FactsA
  /\ WellFormed(cache_data)
  /\ _get_product_key(last.url) \in DOMAIN cache_data.products
  /\ cache_data.products[_get_product_key(last.url)].nutrition = FactsA
  /\ file = JsonFile(cache_data)

\* C5: a search with nutrition extraction enabled attempts at most 2
\* detail-page requests.
C5_FetchCap ==
  (last.op \in ToolOps /\ last.extract_nutrition) =>
    Cardinality(DetailGets(last.log)) <= 2

\* C6: within one search, no detail-page request follows a nutrition fetch
\* that returned the empty map.
C6_AbortAfterFailure ==
  last.op \in ToolOps =>
    \A i \in DetailGets(last.log), j \in DetailGets(last.log) :
       i < j => last.log[i].got # {}

\* C7: constructing the cache raises for no state of the backing file, a
\* later get never raises, and on a missing or corrupt file the store starts
\* as version "1.0" with no entries.
C7_LoadNeverFatal ==
  /\ last.op = "init" =>
       /\ last.exc = NoException
       /\ file.kind \in {"missing", "unreadable", "garbage"} => cache_data = EmptyStore
  /\ last.op = "get_nutrition" => last.exc = NoException

\* C8: a set that returned and whose write succeeded leaves the file equal to
\* the in-memory store; when the file was missing and the store empty, the
\* file now exists and the store holds exactly 1 product.
C8_SetPersists ==
  [][(last'.op = "set_nutrition" /\ last'.exc = NoException /\ last'.io = "ok")
     => /\ file' = JsonFile(cache_data')
        /\ (file.kind = "missing" /\ cache_data = EmptyStore) =>
             /\ file'.kind = "json_dict"
             /\ get_cache_stats(cache_data', file').cache_file_exists
             /\ get_cache_stats(cache_data', file').total_cached_products = 1]_vars

\* a set has persisted an entry whose hit count was raised by two increments
C8_Witness ==
  /\ last.op = "set_nutrition"
  /\ last.exc = NoException
  /\ last.io = "ok"
  /\ file.kind = "json_dict"
  /\ file.data = cache_data
  /\ \E k \in DOMAIN file.data.products : HitsOf(file.data, k) >= 2

\* C9: increment_hit_count on a key that is present adds exactly 1 to the
\* total hit count of the stats and changes that entry's count only; on a key
\* that is absent it changes nothing; get alone changes nothing.
C9_HitCounting ==
  [][(/\ last'.op = "increment_hit_count" =>
           LET key == _get_product_key(last'.url) IN
           IF WellFormed(cache_data) /\ key \in DOMAIN cache_data.products
           THEN /\ last'.exc = NoException
                /\ get_cache_stats(cache_data', file').total_cache_hits
                     = get_cache_stats(cache_data, file).total_cache_hits + 1
                /\ DOMAIN cache_data'.products = DOMAIN cache_data.products
                /\ HitsOf(cache_data', key) = HitsOf(cache_data, key) + 1
                /\ \A k \in DOMAIN cache_data.products \ {key} :
                     cache_data'.products[k] = cache_data.products[k]
                /\ \A fld \in DOMAIN cache_data.products[key] \ {"cache_hits"} :
                     cache_data'.products[key][fld] = cache_data.products[key][fld]
           ELSE cache_data' = cache_data
      /\ last'.op = "get_nutrition" => cache_data' = cache_data)]_vars

\* two increments have taken the count of an entry that started without one to 2
C9_Witness ==
  /\ last.op = "increment_hit_count"
  /\ last.exc = NoException
  /\ last.url = UrlB
  /\ WellFormed(cache_data)
  /\ UrlB \in DOMAIN cache_data.products
  /\ HitsOf(cache_data, UrlB) = 2
  /\ get_cache_stats(cache_data, file).total_cache_hits >= 2

\* C10: a set that returned keeps the prior hit count of an existing key and
\* gives a new key the count 0, stores the name, URL and facts of the call in
\* place of the old ones, and leaves every other entry and the total hit
\* count unchanged.
C10_SetIsUpsert ==
  [][(last'.op = "set_nutrition" /\ last'.exc = NoException)
     => LET key == _get_product_key(last'.url) IN
        /\ DOMAIN cache_data'.products = DOMAIN cache_data.products \cup {key}
        /\ HitsOf(cache_data', key) =
             (IF key \in DOMAIN cache_data.products THEN HitsOf(cache_data, key) ELSE 0)
        /\ cache_data'.products[key].product_name = last'.name
        /\ cache_data'.products[key].product_url = last'.url
        /\ cache_data'.products[key].nutrition = last'.facts
        /\ \A k \in DOMAIN cache_data.products \ {key} :
             cache_data'.products[k] = cache_data.products[k]
        /\ TotalHits(cache_data') = TotalHits(cache_data)]_vars

\* a set has replaced the name and facts of an entry that had been hit
C10_Witness ==
  /\ last.op = "set_nutrition"
  /\ last.exc = NoException
  /\ last.name = "Chicken Fillets"
  /\ "123" \in DOMAIN cache_data.products
  /\ cache_data.products["123"].product_name = "Chicken Fillets"
  /\ cache_data.products["123"].nutrition = FactsB
  /\ HitsOf(cache_data, "123") >= 1

ReadOps == {"get_nutrition", "get_cached_nutrition", "get_cache_stats", "increment_hit_count"}

\* C11: increment_hit_count leaves the file unchanged (as do get and stats)
\* while the stats of the process show the new total at once; a set whose
\* write succeeds puts the in-memory counts into the file; a process that
\* starts later has the counts of the file, not those of the earlier process.
C11_IncrementInMemoryOnly ==
  [][/\ last'.op \in ReadOps => file' = file
     /\ (/\ last'.op = "increment_hit_count"
         /\ WellFormed(cache_data)
         /\ _get_product_key(last'.url) \in DOMAIN cache_data.products)
        => get_cache_stats(cache_data', file').total_cache_hits
             = get_cache_stats(cache_data, file).total_cache_hits + 1
     /\ (last'.op = "set_nutrition" /\ last'.exc = NoException /\ last'.io = "ok")
        => \A k \in DOMAIN cache_data.products :
             HitsOf(file'.data, k) = HitsOf(cache_data, k)
     /\ (last'.op = "init" /\ file.kind = "json_dict")
        => cache_data' = file.data]_vars

\* an increment has made the in-memory count one more than the count in the file
C11_Witness ==
  /\ last.op = "increment_hit_count"
  /\ WellFormed(cache_data)
  /\ file.kind = "json_dict"
  /\ WellFormed(file.data)
  /\ \E k \in DOMAIN cache_data.products \cap DOMAIN file.data.products :
       /\ k = _get_product_key(last.url)
       /\ HitsOf(cache_data, k) = HitsOf(file.data, k) + 1

\* C12: after clear() the store has no entries (every get is a miss, the
\* stats count 0 products and 0 hits), its version is the one it had before,
\* and when the write succeeded the file holds the emptied store.
C12_ClearKeepsVersion ==
  [][(last'.op = "clear_cache" /\ last'.exc = NoException /\ WellFormed(cache_data))
     => /\ cache_data'.products = NoProducts
        /\ \A url \in CacheUrls : get_nutrition(cache_data', url).ret = PyNone
        /\ get_cache_stats(cache_data', file').total_cached_products = 0
        /\ get_cache_stats(cache_data', file').total_cache_hits = 0
        /\ cache_data'.cache_version = cache_data.cache_version
        /\ last'.io = "ok" => file' = JsonFile(cache_data')]_vars

\* C13: a set or clear whose write fails does not raise and the in-memory
\* store shows its effect; get, set and stats on a loaded store do not raise,
\* whatever became of the file.
C13_IoFailureDegrades ==
  [][WellFormed(cache_data)
     => /\ (last'.op = "set_nutrition" /\ last'.io # "ok")
           => /\ last'.exc = NoException
              /\ get_nutrition(cache_data', last'.url).ret = PyDict(last'.facts)
        /\ (last'.op = "clear_cache" /\ last'.io # "ok")
           => /\ last'.exc = NoException
              /\ cache_data'.products = NoProducts
        /\ last'.op \in {"get_nutrition", "set_nutrition"} => last'.exc = NoException
        /\ last'.op = "get_cache_stats" => last'.res.exc = NoException]_vars

\* a get finds facts that a set stored while the file could not be created
C13_Witness ==
  /\ last.op = "get_nutrition"
  /\ last.exc = NoException
  /\ last.ret = PyDict(FactsA)
  /\ file.kind = "missing"

\* ------------------------------------------------- pure functions, applied

\* URLs given to _get_product_key
KeyUrls == {UrlA, UrlB, "https://x/products/123/reviews", "https://x/products/123?from=search",
            "https://x/products/1/products/2", "https://x/products/", ""}

\* the stores the functions are applied next to
PureStores == {NoStore, EmptyStore, StoredFile.data}

InitPure ==
  /\ file = MissingFile
  /\ cache_data \in PureStores
  /\ proc = IF cache_data = NoStore THEN "down" ELSE "up"
  /\ last = [op |-> "none"]
  /\ cli_data = NoStore
  /\ agent = NoAgent

GetProductKey ==
  /\ \E url \in KeyUrls :
       last' = [op |-> "_get_product_key", url |-> url, ret |-> _get_product_key(url)]
  /\ UNCHANGED <<file, proc, cache_data>>
  /\ UNCHANGED <<cli_data, agent>>

\* a title whose weight reads as zero
ZeroTitle == "Tesco Cola 0G Sugar 2L"

\* the match lists of the search pages handed to the extraction functions
RealTitleLists == {<<>>, <<Title1, Title2>>, <<Title1, "Milk", Title3>>, <<ZeroTitle, Title2>>,
                   <<Title1, Title1>>}
RealPriceLists == {<<>>, <<450>>, <<450, 1200, 99>>}
RealPages ==
  {[PageNone EXCEPT !.titles = t, !.product_ids = ids, !.tpncs = tp, !.brands = b,
                    !.prices = pr] :
     t \in RealTitleLists, ids \in {<<>>, <<"1001", "1002", "1003">>},
     tp \in {<<>>, <<"1001", "1002">>}, b \in {<<"TESCO">>}, pr \in RealPriceLists}

SimplePages ==
  {[PageNone EXCEPT !.json_pairs = j, !.links = l, !.text_matches = tm] :
     j  \in {<<>>, <<<<Title1, "1001">>, <<"Milk", "1004">>>>, <<<<"Egg", "1001">>>>},
     l  \in {<<>>, <<<<"1002", Title2>>>>, <<<<"1003", "Ham">>>>},
     tm \in {<<<<>>, <<>>, <<>>>>, <<<<"Tesco chicken thighs 1kg">>, <<>>, <<"chicken">>>>}}

\* the parsed pages handed to the working scraper's extraction steps
WorkingDicts == <<[name |-> Title1, price |-> "£4.50", url |-> ProductUrl("1001")],
                  [name |-> "ab", price |-> NoPrice, url |-> ""],
                  [name |-> Title2, price |-> NoPrice, url |-> ProductUrl("1002")]>>
WorkingPages ==
  {[PageNone EXCEPT !.scripts = sc, !.selectors = se] :
     sc \in {<<>>, <<<<WorkingDicts[2]>>, <<>>>>, <<WorkingDicts, <<>>, WorkingDicts>>,
             <<WorkingDicts, WorkingDicts, WorkingDicts, WorkingDicts>>},
     se \in {<<>>, <<<<[name |-> "Ham", url |-> ProductUrl("1003")]>>>>,
             <<<<>>, <<[name |-> Title3, url |-> ProductUrl("1003")]>>,
               <<[name |-> Title1, url |-> ProductUrl("1001")]>>>>}}

\* the extraction steps of WorkingTescoScraper.search_products
WorkingExtractSteps ==
  /\ \E page \in WorkingPages, query \in WorkingQueries, limit \in Limits, rnd \in Rnds :
       \E res \in {WorkingExtract(page, query, limit, rnd)} :
         last' = [op |-> "search_products", page |-> page, query |-> query,
                  limit |-> limit, rnd |-> rnd, ret |-> res.products, ran |-> res.ran]
  /\ UNCHANGED <<file, proc, cache_data>>
  /\ UNCHANGED <<cli_data, agent>>

\* RealTescoScraper._extract_real_product_data with extract_nutrition off
ExtractRealProductData ==
  /\ \E page \in RealPages :
       \E st \in {_extract_real_product_data(page, FALSE, cache_data, file, NoDetails, "ok")} :
         last' = [op |-> "_extract_real_product_data", page |-> page, ret |-> st.products]
  /\ UNCHANGED <<file, proc, cache_data>>
  /\ UNCHANGED <<cli_data, agent>>

\* RealTescoScraper._enrich_with_price_data with extract_nutrition off, on the
\* products built from a page
EnrichWithPriceData ==
  /\ \E page \in RealPages :
       \E products \in {BuildProducts(page, 0)} :
         \E st \in {_enrich_with_price_data(products, page, FALSE, cache_data, file,
                                            NoDetails, "ok")} :
           last' = [op |-> "_enrich_with_price_data", products |-> products,
                    prices |-> page.prices, ret |-> st.products]
  /\ UNCHANGED <<file, proc, cache_data>>
  /\ UNCHANGED <<cli_data, agent>>

\* SimpleTescoScraper._extract_products_robust
ExtractProductsRobust ==
  /\ \E page \in SimplePages :
       \E res \in {_extract_products_robust(page)} :
         last' = [op |-> "_extract_products_robust", page |-> page, ret |-> res.products,
                  ran |-> res.ran]
  /\ UNCHANGED <<file, proc, cache_data>>
  /\ UNCHANGED <<cli_data, agent>>

\* nutrition_data[k] = v
NutritionSet(nutrition, k, v) == {p \in nutrition : p[1] # k} \cup {<<k, v>>}

\* nutrition_data[k] = v for the pairs whose key is in keys
NutritionFill(nutrition, pairs, keys) ==
  {p \in nutrition : ~\E q \in pairs : q[1] \in keys /\ q[1] = p[1]}
    \cup {q \in pairs : q[1] \in keys}

\* the keys of nutrition_data whose value is set
NutritionKeys(nutrition) == {p[1] : p \in nutrition}

\* What the patterns find in a product page: the size in the serving-size div
\* ("" when there is none), the values in the nutritional-info list, whether a
\* table mentions 'nutrition' or 'protein', the size in that table's third
\* header, the values the patterns find in its text, and the values in the
\* rows of a table that mentions only 'energy' or 'kcal'.
DetailSoups ==
  {[serving_div |-> d, list |-> l, table_text |-> TRUE, header |-> h, table |-> t, rows |-> {}]
     : d \in {"", "125g"}, l \in {{}, {<<"energy", "115kcal">>, <<"fat", "3.3g">>}},
       h \in {"", "30g"},
       t \in {{}, {<<"protein", "21.5g">>, <<"carbs", "0g">>, <<"energy", "110kcal">>}}}
  \cup
  {[serving_div |-> d, list |-> l, table_text |-> FALSE, header |-> "", table |-> {}, rows |-> r]
     : d \in {"", "125g"}, l \in {{}, {<<"energy", "115kcal">>, <<"fat", "3.3g">>}},
       r \in {{}, {<<"energy", "42kcal">>, <<"carbs", "10.6g">>}}}

\* _get_real_nutrition_raw from BeautifulSoup(response.text) to its return
ParseRealNutrition(soup) ==
  LET div    == IF soup.serving_div # "" THEN {<<"serving_size", soup.serving_div>>} ELSE {}
      list   == NutritionFill(div, soup.list, {"energy", "fat", "salt"})
      sized  == IF ~soup.table_text \/ "serving_size" \in NutritionKeys(list) THEN list
                ELSE NutritionSet(list, "serving_size",
                                  IF soup.header # "" THEN soup.header ELSE "100g")
      table  == IF ~soup.table_text THEN list
                ELSE NutritionFill(NutritionFill(sized, soup.table, {"protein", "carbs"}),
                                   soup.table,
                                   {"energy", "fat", "salt"} \ NutritionKeys(sized))
      served == IF table # {} /\ "serving_size" \notin NutritionKeys(table)
                THEN NutritionSet(table, "serving_size", "100g") ELSE table
  IN IF served = {}
     THEN NutritionFill({}, soup.rows, {"energy", "fat", "carbs", "protein", "salt"})
     ELSE served

\* SimpleTescoScraper._extract_nutrition_from_html
_extract_nutrition_from_html(soup) ==
  LET div   == IF soup.serving_div # "" THEN {<<"serving_size", soup.serving_div>>} ELSE {}
      list  == NutritionFill(div, soup.list, {"energy", "fat", "salt"})
      table == IF soup.table_text
               THEN NutritionFill(list, soup.table, {"protein", "carbs"}) ELSE list
  IN IF table # {} /\ "serving_size" \notin NutritionKeys(table)
     THEN NutritionSet(table, "serving_size", "100g") ELSE table

GetRealNutritionRawParse ==
  /\ \E soup \in DetailSoups :
       last' = [op |-> "_get_real_nutrition_raw", soup |-> soup,
                nutrition_data |-> ParseRealNutrition(soup)]
  /\ UNCHANGED <<file, proc, cache_data>>
  /\ UNCHANGED <<cli_data, agent>>

ExtractNutritionFromHtml ==
  /\ \E soup \in DetailSoups :
       last' = [op |-> "_extract_nutrition_from_html", soup |-> soup,
                nutrition_data |-> _extract_nutrition_from_html(soup)]
  /\ UNCHANGED <<file, proc, cache_data>>
  /\ UNCHANGED <<cli_data, agent>>

NextPure ==
  \/ GetProductKey
  \/ ExtractRealProductData
  \/ EnrichWithPriceData
  \/ ExtractProductsRobust
  \/ WorkingExtractSteps
  \/ GetRealNutritionRawParse
  \/ ExtractNutritionFromHtml

SpecPure == InitPure /\ [][NextPure]_vars

\* the text of s before the first of the characters "/", "?" and "#"
SegmentOf(s) ==
  LET stops == {i \in 1..Len(s) : SubSeq(s, i, i) \in {"/", "?", "#"}}
  IN IF stops = {} THEN s
     ELSE SubSeq(s, 1, (CHOOSE i \in stops : \A j \in stops : i <= j) - 1)

\* C14: the key of a URL depends on the URL alone; for a URL that contains
\* '/products/' it is the path segment that follows '/products/', and for any
\* other URL it is the URL itself.
C14_KeyIsPathSegment ==
  last.op = "_get_product_key" =>
    /\ last.ret = _get_product_key(last.url)
    /\ last.url = UrlA => last.ret = "123"
    /\ Contains(last.url, Sep) =>
         last.ret = SegmentOf(SubSeq(last.url, Find(last.url, Sep) + Len(Sep), Len(last.url)))
    /\ ~Contains(last.url, Sep) => last.ret = last.url

\* C15: a nutrition fetch that requested the detail page returns the empty
\* map when the body is shorter than the scraper's minimum size, when the body
\* holds a block-indicator phrase, and when the status is 403.
C15_BlockRejection ==
  (last.op \in FetchOps /\ DetailGets(last.log) # {} /\ ~last.resp.exc) =>
    /\ last.resp.length < (IF last.op = "_get_real_nutrition_with_name" THEN MinBodyReal
                           ELSE MinBodySimple) => last.ret = {}
    /\ last.resp.blocked => last.ret = {}
    /\ last.resp.status = 403 => last.ret = {}

\* C16: a nutrition fetch never raises, whatever the cache lookup, the
\* detail-page request and the parsing give.
C16_FetchNeverRaises ==
  last.op \in FetchOps => last.exc = NoException

\* C17: no product that product extraction returns has a name of five
\* characters or fewer, an empty product id or an empty url.
C17_ValidityFilter ==
  last.op \in {"_extract_real_product_data", "_extract_products_robust"} =>
    \A i \in 1..Len(last.ret) :
      /\ Len(last.ret[i].name) > 5
      /\ last.ret[i].product_id # ""
      /\ last.ret[i].url # ""

\* the positions of the products that carry a price
Priced(products) == {i \in 1..Len(products) : products[i].price # NoPrice}

\* C20: price enrichment prices product i only when i is below the number of
\* prices found: the products priced are exactly the first min(number of
\* products, number of prices found), and every later product keeps the
\* 'Price not available' sentinel.
C20_PriceAssignmentBound ==
  last.op = "_enrich_with_price_data" =>
    /\ Len(last.ret) = Len(last.products)
    /\ Priced(last.ret) =
         1..(IF Len(last.products) < Len(last.prices) THEN Len(last.products)
             ELSE Len(last.prices))

\* C18: the multi-strategy extractors run their strategies in a fixed order
\* and run a later one only when every earlier one gave no products, so what
\* they return is the output of exactly one strategy, the first that gives
\* any; when the embedded-JSON strategy gives a product, no later strategy is
\* run.
C18_CascadeShortCircuit ==
  /\ last.op = "_extract_products_robust" =>
       LET json == _extract_from_json_patterns(last.page.json_pairs, 1)
           html == _extract_from_html_patterns(last.page.links)
           text == _extract_from_text_patterns(last.page.text_matches, 1)
       IN /\ json # <<>> => last.ret = json /\ last.ran = <<"json">>
          /\ (json = <<>> /\ html # <<>>) =>
               last.ret = html /\ last.ran = <<"json", "html">>
          /\ (json = <<>> /\ html = <<>>) =>
               last.ret = text /\ last.ran = <<"json", "html", "text">>
  /\ last.op = "search_products" =>
       LET scripts == _extract_from_scripts(last.page.scripts, 1, <<>>)
           html    == _extract_from_html(last.page.selectors, 1)
           made    == _generate_realistic_results(last.query, last.limit, last.rnd)
       IN /\ scripts # <<>> => last.ret = scripts /\ last.ran = <<"scripts">>
          /\ (scripts = <<>> /\ html # <<>>) =>
               last.ret = html /\ last.ran = <<"scripts", "html">>
          /\ (scripts = <<>> /\ html = <<>>) =>
               last.ret = made /\ last.ran = <<"scripts", "html", "generate">>

\* the embedded-JSON strategy gave products on a page whose links and text
\* would have given products too
C18_Witness ==
  /\ last.op = "_extract_products_robust"
  /\ last.ran = <<"json">>
  /\ last.ret # <<>>
  /\ _extract_from_html_patterns(last.page.links) # <<>>
  /\ _extract_from_text_patterns(last.page.text_matches, 1) # <<>>

\* the operations that search the storefront
SearchOps == ToolOps \cup {"search_tesco_products_working", "search_tesco_products_free"}

\* C19: when the search-page request fails (timeout, connection error, status
\* of 400 or more) the search returns no product entries: the tool returns
\* its one no-products entry and nothing that was not extracted from a
\* response.
C19_TransportFailureNoData ==
  (last.op \in SearchOps /\ (last.sresp.exc \/ last.sresp.status >= 400)) =>
    /\ last.exc = NoException
    /\ last.found = 0
    /\ Len(last.ret) = 1
    /\ "name" \notin DOMAIN last.ret[1]

\* the name and url of each product of a list, in order
Keys(products) == [i \in 1..Len(products) |-> <<products[i].name, products[i].url>>]

\* the products a scraper extracts from the answer to its search request, in
\* extraction order; for the working scraper, those its two parsers extract
Extracted(op, sresp) ==
  IF sresp.exc THEN <<>>
  ELSE IF op # "search_tesco_products_free" /\ sresp.status >= 400 THEN <<>>
  ELSE IF op = "search_tesco_products_real" THEN Filter(BuildProducts(sresp.page, 0), 1)
  ELSE IF op = "search_tesco_products_simple"
  THEN (IF sresp.length < MinBodySimple THEN <<>>
        ELSE _extract_products_robust(sresp.page).products)
  ELSE IF op = "search_tesco_products_free" THEN TileProducts(sresp.page.tiles, 1)
  ELSE The({ IF scripts # <<>> THEN scripts ELSE _extract_from_html(sresp.page.selectors, 1)
           : scripts \in {_extract_from_scripts(sresp.page.scripts, 1, <<>>)} })

\* C21: a search returns at most limit products, and they are the first
\* products in extraction order: all of them up to limit when nothing raised
\* on the way.
C21_ResultSizeBound ==
  last.op \in SearchOps =>
    /\ last.found <= last.limit
    /\ last.found > 0 => Len(last.ret) = last.found
    /\ \A ex \in {Extracted(last.op, last.sresp)} :
         ex # <<>> =>
           /\ last.found > 0 => Keys(last.ret) = Keys(Take(ex, last.found))
           /\ WellFormed(cache_data) =>
                last.found = (IF Len(ex) < last.limit THEN Len(ex) ELSE last.limit)

\* a search cut three extracted products down to its limit of two
C21_Witness ==
  /\ last.op = "search_tesco_products_real"
  /\ last.limit = 2
  /\ last.found = 2
  /\ Len(Extracted(last.op, last.sresp)) = 3

\* the nutrient columns of the export
NutrientColumns == {"serving_size", "energy", "protein", "carbs", "fat", "salt"}

\* C22: an export changes neither the in-memory store nor the backing file;
\* an export that is written holds exactly one row per entry, with the empty
\* string in the column of every nutrient the entry lacks; and an export that
\* follows an export directly writes the same rows.
C22_ExportReadOnlyIdempotent ==
  [][last'.op = "export_to_csv" =>
       /\ cache_data' = cache_data
       /\ file' = file
       /\ (last'.written /\ last'.exc = NoException) =>
            /\ Cardinality(last'.rows) = Cardinality(DOMAIN cache_data.products)
            /\ \A k \in DOMAIN cache_data.products :
                 \E row \in last'.rows :
                   /\ row.product_id = k
                   /\ \A c \in NutrientColumns :
                        row[c] = IF \E p \in DictGet(cache_data.products[k], "nutrition", {}) :
                                       p[1] = c
                                 THEN (CHOOSE p \in cache_data.products[k].nutrition :
                                         p[1] = c)[2]
                                 ELSE ""
            /\ (last.op = "export_to_csv" /\ last.written /\ last.exc = NoException) =>
                 last'.rows = last.rows
  ]_vars

\* an export of a store with an entry that lacks a nutrient
C22_Witness ==
  /\ last.op = "export_to_csv"
  /\ last.written
  /\ last.exc = NoException
  /\ \E row \in last.rows : row.energy = "" /\ row.protein # ""

\* the positions of the requests for the search page in a log
SearchGets(log) == {i \in 1..Len(log) : log[i].ev = "GET" /\ log[i].kind = "search"}

C24_DelayBeforeRequest ==
  last.op \in SearchOps \cup FetchOps =>
    \A i \in SearchGets(last.log) \cup DetailGets(last.log) :
      i > 1 /\ last.log[i - 1] = Slept

\* the positions, counted from 1, of the titles that pass the length filter
LongTitles(titles) == {i \in 1..Len(titles) : Len(titles[i]) > 5}

\* C25: pattern extraction pairs by position: the product of the i-th title
\* collected (i counted from 0, the title longer than five characters) has
\* the i-th product id, or 'unknown_i' past the end of the ids; a url that
\* ends with the i-th tpnc, or with its product id past the end of the tpncs;
\* the i-th brand, or the brand read from its title past the end of the
\* brands.  The products come in the order of their titles, repeated titles
\* included.
C25_PositionalCorrelation ==
  last.op = "_extract_real_product_data" =>
    LET page == last.page
        long == LongTitles(page.titles)
    IN /\ Len(last.ret) = Cardinality(long)
       /\ \A k \in 1..Len(last.ret) :
            LET i   == CHOOSE j \in long : Cardinality({h \in long : h < j}) = k - 1
                id  == IF i <= Len(page.product_ids) THEN page.product_ids[i]
                       ELSE "unknown_" \o ToString(i - 1)
                end == IF i <= Len(page.tpncs) THEN page.tpncs[i] ELSE id
            IN /\ last.ret[k].name = page.titles[i]
               /\ last.ret[k].product_id = id
               /\ last.ret[k].url = BaseUrl \o "/groceries/en-GB/products/" \o end
               /\ last.ret[k].brand = IF i <= Len(page.brands) THEN page.brands[i]
                                      ELSE _extract_brand_from_title(page.titles[i])

\* a short second title is dropped and the third title keeps the third id
C25_Witness ==
  /\ last.op = "_extract_real_product_data"
  /\ last.page.titles = <<Title1, "Milk", Title3>>
  /\ Len(last.page.product_ids) = 3
  /\ Len(last.ret) = 2
  /\ last.ret[2].product_id = "1003"
  /\ last.ret[2].brand = "Cravendale"

\* C26: every run of the management CLI returns without an exception, and
\* 'help' prints the usage text, as a run without arguments does.
C26_CliTerminates ==
  last.op = "main" =>
    /\ last.exc = NoException
    /\ last.argv \in {<<>>, <<"help">>} => last.out = <<"usage">>

\* C28: when the clear command has persisted an empty store, the next set,
\* by a process that loaded the store before the clear, writes a file that
\* holds the entry being set and none of the entries from before the clear.
C28_ClearedStaysCleared ==
  [][(/\ last.op = "main"
      /\ last.out = <<"cleared">>
      /\ file = JsonFile(EmptyStore)
      /\ last'.op = "set_nutrition"
      /\ file'.kind = "json_dict")
     => DOMAIN file'.data.products \subseteq {_get_product_key(last'.url)}]_vars

\* C27: when a call of agent_node is over, by return or by exception, the
\* flag that keeps the progress indicator running is off; once it is off the
\* indicator's thread ends; and a step of that thread changes nothing of the
\* backing file or of a process's store.
C27_ProgressCancellation ==
  /\ [](agent.pc \in {"returned", "raised"} => ~agent.thinking)
  /\ (agent.thinking_thread # "none" /\ ~agent.thinking)
        ~> (agent.thinking_thread = "ended")
  /\ [][agent'.thinking_thread # agent.thinking_thread
          => UNCHANGED <<file, proc, cache_data, cli_data>>]_vars

\* the call raised while the indicator slept, and the indicator has ended
C27_Witness ==
  /\ agent.pc = "raised"
  /\ ~agent.thinking
  /\ agent.thinking_thread = "ended"
  /\ agent.dots > 0

\* C29: a search with nutrition extraction enabled and limit L requests the
\* detail page of no product outside the list it returns, hence of at most
\* L products.
C29_FetchOnlyReturned ==
  (last.op \in ToolOps /\ last.extract_nutrition) =>
    /\ \A i \in DetailGets(last.log) :
         \E k \in 1..Len(last.ret) :
           "url" \in DOMAIN last.ret[k] /\ last.ret[k].url = last.log[i].url
    /\ Cardinality(DetailGets(last.log)) <= last.limit

\* C30: every non-empty nutrition map that the extraction from a product
\* page returns, in either scraper, has a serving_size.
C30_ServingSizePresent ==
  (last.op \in {"_get_real_nutrition_raw", "_extract_nutrition_from_html"}
     /\ last.nutrition_data # {})
    => "serving_size" \in NutritionKeys(last.nutrition_data)

====
